---- MODULE Spec2Model ----
(***************************************************************************)
(* Log-structured key-value store of project-5 (storage/kvstore.rs with    *)
(* storage/kv_util.rs): append-only segment files "<gen>.log", an          *)
(* in-memory index key -> CommandPos, recovery by replay, and compaction.  *)
(*                                                                         *)
(* A segment file is the sequence of the records written to it; byte       *)
(* offsets and lengths are those of the serde_json encoding, so a          *)
(* CommandPos (gen, pos, len) is resolved by what lies at that offset.     *)
(* Keys are one-character strings; values are strings of about v MiB, so   *)
(* that the 2 MiB compaction threshold is reached after a few writes; the  *)
(* record of value 1 is 1 MiB long exactly, so that the counter can stand  *)
(* at the threshold itself.                                                *)
(***************************************************************************)
EXTENDS Integers, Sequences, FiniteSets, TLC

\* ---------------------------------------------------------------- bounds
NumKeys == 2
NumVals == 2
\* mutations (set / successful remove) submitted over a whole behaviour
MaxMutations == 3
\* times the store is opened on the directory (the first open included)
MaxOpens == 2
\* the capacity of the shared-queue pool, and the tasks submitted to it
NumThreads == 2
MaxTasks == 3
\* connections made to the server, and command frames a client writes on one
MaxConns == 2
MaxFrames == 2
MaxStr == 2
MaxFirst == 9
\* calls made through the facade
MaxCalls == 3
\* entries of a listed directory
MaxEntries == 3

Keys == 1..NumKeys
Vals == 1..NumVals

\* ------------------------------------------------------------- constants
\* kvstore.rs:15
COMPACTION_THRESHOLD == 2 * 1024 * 1024

\* ---------------------------------------------------------------- records
\* Ops::set / Ops::rm
OpsSet(key, val) == [type |-> "Set", key |-> key, val |-> val]
OpsRm(key) == [type |-> "Rm", key |-> key, val |-> 0]
\* the first len bytes of a record's encoding, the rest never written
OpsTorn(op, len) == [type |-> "Torn", key |-> op.key, val |-> op.val, len |-> len]

KeyLen(key) == 1
ValLen(val) == IF val = 1 THEN 1024 * 1024 - 28 ELSE val * 1024 * 1024

\* serde_json::to_writer of an Ops (externally tagged enum):
\*   {"Set":{"key":"<key>","val":"<val>"}}   and   {"Rm":{"key":"<key>"}}
SerializedLen(op) ==
    IF op.type = "Set" THEN 27 + KeyLen(op.key) + ValLen(op.val)
    ELSE IF op.type = "Rm" THEN 17 + KeyLen(op.key)
    ELSE op.len

\* CommandPos::from((gen, pos, len))
CommandPos(gen, pos, len) == [gen |-> gen, pos |-> pos, len |-> len]

\* results of the engine's calls: Ok(()), Ok(Some(v)), Ok(None), Err(kind)
Res(kind, val) == [kind |-> kind, val |-> val]
OkUnit == Res("Ok", 0)
OkNone == Res("None", 0)
OkSome(v) == Res("Some", v)
ErrKeyNotFound == Res("KeyNotFound", 0)
ErrIo == Res("Io", 0)
ErrSerde == Res("Serde", 0)
ErrUnexpectedCommandType == Res("UnexpectedCommandType", 0)

\* ------------------------------------------------------------- byte level
\* seek(pos); take(len); serde_json::from_reader: the record whose encoding
\* is exactly the bytes [pos, pos+len) of the file, a decode error otherwise
RECURSIVE DecodeAt(_, _, _, _, _)
DecodeAt(recs, i, off, pos, len) ==
    IF i > Len(recs) \/ off > pos THEN ErrSerde
    ELSE IF off = pos
         THEN (IF SerializedLen(recs[i]) = len /\ recs[i].type # "Torn"
               THEN recs[i] ELSE ErrSerde)
         ELSE DecodeAt(recs, i + 1, off + SerializedLen(recs[i]), pos, len)

IsOps(x) == "type" \in DOMAIN x

\* ---------------------------------------------------------------- index
Insert(db, key, cmd) == (key :> cmd) @@ db
RemoveKey(db, key) == [x \in (DOMAIN db) \ {key} |-> db[x]]
EmptyMap == [x \in {} |-> 0]

\* the first n keys of the index, in the order of db.values_mut()
FirstKeys(db, n) == {k \in DOMAIN db : Cardinality({j \in DOMAIN db : j < k}) < n}

\* ------------------------------------------------------------- recovery
\* load_from_logfile: replay one segment into the index, summing the
\* lengths of the locators it displaces
\* a replay in which the first Set of a key wins
RECURSIVE LoadFromFirstWins(_, _, _, _, _, _)
LoadFromFirstWins(gen, recs, i, pos, db, unc) ==
    IF i > Len(recs) THEN [database |-> db, uncompacted |-> unc, res |-> OkUnit]
    ELSE IF recs[i].type = "Torn" THEN [database |-> db, uncompacted |-> unc, res |-> ErrSerde]
    ELSE LET op == recs[i]
             new_pos == pos + SerializedLen(op)
         IN  IF op.type = "Set"
             THEN LoadFromFirstWins(gen, recs, i + 1, new_pos,
                      IF op.key \in DOMAIN db THEN db
                      ELSE Insert(db, op.key, CommandPos(gen, pos, new_pos - pos)),
                      unc)
             ELSE LoadFromFirstWins(gen, recs, i + 1, new_pos, RemoveKey(db, op.key), unc)

\* stream.next() is None at the end of the file; on bytes that are not a
\* whole record it is Some(Err), which op? (line 47) returns to the caller
RECURSIVE LoadFrom(_, _, _, _, _, _)
LoadFrom(gen, recs, i, pos, db, unc) ==
    IF i > Len(recs) THEN [database |-> db, uncompacted |-> unc, res |-> OkUnit]
    ELSE IF recs[i].type = "Torn" THEN [database |-> db, uncompacted |-> unc, res |-> ErrSerde]
    ELSE LET op == recs[i]
             new_pos == pos + SerializedLen(op)
             old == IF op.key \in DOMAIN db THEN db[op.key].len ELSE 0
         IN  IF op.type = "Set"
             THEN LoadFrom(gen, recs, i + 1, new_pos,
                           Insert(db, op.key, CommandPos(gen, pos, new_pos - pos)),
                           unc + old)
             ELSE LoadFrom(gen, recs, i + 1, new_pos, RemoveKey(db, op.key), unc + old)

load_from_logfile(gen, recs, db) == LoadFrom(gen, recs, 1, 0, db, 0)

SetMax(S) == CHOOSE x \in S : \A y \in S : y <= x
SetMin(S) == CHOOSE x \in S : \A y \in S : x <= y

\* a replay that takes the segments from the newest to the oldest
RECURSIVE LoadGensDescending(_, _, _, _)
LoadGensDescending(fs, gens, db, unc) ==
    IF gens = {} THEN [database |-> db, uncompacted |-> unc, res |-> OkUnit]
    ELSE LET gen == SetMax(gens)
             r == load_from_logfile(gen, fs[gen], db)
         IN  IF r.res # OkUnit
             THEN [database |-> r.database, uncompacted |-> unc, res |-> r.res]
             ELSE LoadGensDescending(fs, gens \ {gen}, r.database, unc + r.uncompacted)

\* the loop of KvStore::open over sorted_gen_list, in ascending order
RECURSIVE LoadGens(_, _, _, _)
LoadGens(fs, gens, db, unc) ==
    IF gens = {} THEN [database |-> db, uncompacted |-> unc, res |-> OkUnit]
    ELSE LET gen == SetMin(gens)
             r == load_from_logfile(gen, fs[gen], db)
         IN  IF r.res # OkUnit
             THEN [database |-> r.database, uncompacted |-> unc, res |-> r.res]
             ELSE LoadGens(fs, gens \ {gen}, r.database, unc + r.uncompacted)

\* the store as a value: the directory and the fields of the two halves
Store(fs, db, gen, wr, stale, unc) ==
    [files |-> fs, database |-> db, cur_gen |-> gen, writer |-> wr,
     stale_gen |-> stale, uncompacted |-> unc]

\* open_logfile / new_log_file: create(true), no truncation
CreateLog(fs, gen) == IF gen \in DOMAIN fs THEN fs ELSE (gen :> <<>>) @@ fs

\* an open that writes on into the newest segment it found
KvOpenReuse(fs) ==
    LET r == LoadGens(fs, DOMAIN fs, EmptyMap, 0)
        cur == IF DOMAIN fs = {} THEN 1 ELSE SetMax(DOMAIN fs)
    IN  Store(CreateLog(fs, cur), r.database, cur,
              [gen |-> cur, pos |-> 0], 0, r.uncompacted)

\* KvStore::open
KvOpen(fs) ==
    LET r == LoadGens(fs, DOMAIN fs, EmptyMap, 0)
        cur == (IF DOMAIN fs = {} THEN 0 ELSE SetMax(DOMAIN fs)) + 1
    IN  Store(CreateLog(fs, cur), r.database, cur,
              [gen |-> cur, pos |-> 0], 0, r.uncompacted)

\* the Result of KvStore::open: the ? of line 74 returns the error of the
\* first segment whose replay fails, before anything is created
OpenResult(fs) == LoadGens(fs, DOMAIN fs, EmptyMap, 0).res

\* no store: what a process holds after an open that failed
NoStore(fs) == Store(fs, EmptyMap, 0, [gen |-> 0, pos |-> 0], 0, 0)

\* ------------------------------------------------------------ writer half
\* a writer whose buffer never reaches the file
FlushDropped(fs, gen, buf) == fs

\* PositionedBufWriter::flush: the records written through the writer since
\* the last flush reach the file; readers open the file themselves and see
\* flushed bytes only
Flush(fs, gen, buf) == [fs EXCEPT ![gen] = @ \o buf]

\* a writer that starts every record at offset 0, over the previous one
write_ops_rewind(s, op) ==
    [st  |-> [s EXCEPT !.files = [@ EXCEPT ![s.writer.gen] = <<op>>],
                       !.writer = [@ EXCEPT !.pos = SerializedLen(op)]],
     cmd |-> CommandPos(s.cur_gen, 0, SerializedLen(op))]

\* a writer that names its record by the generation after the current one
write_ops_ahead(s, op) ==
    LET pos == s.writer.pos
        new_pos == pos + SerializedLen(op)
    IN  [st  |-> [s EXCEPT !.files = [@ EXCEPT ![s.writer.gen] = Append(@, op)],
                           !.writer = [@ EXCEPT !.pos = new_pos]],
         cmd |-> CommandPos(s.cur_gen + 1, pos, new_pos - pos)]

\* KvStoreWriteHalf::write_ops: serialize at writer.pos, flush, and name
\* the record by the current generation
write_ops(s, op) ==
    LET pos == s.writer.pos
        new_pos == pos + SerializedLen(op)
    IN  [st  |-> [s EXCEPT !.files = Flush(@, s.writer.gen, <<op>>),
                           !.writer = [@ EXCEPT !.pos = new_pos]],
         cmd |-> CommandPos(s.cur_gen, pos, new_pos - pos)]

\* bytes of a record that have reached the file when the write stops short:
\* none, the first one, all but the last
TornLens(op) == {0, 1, SerializedLen(op) - 1}

\* write_ops when to_writer or flush returns an error (the ? of lines 305
\* and 306): the writer has counted the len bytes it passed on
\* (PositionedBufWriter::write, lines 473-476), and nothing takes them back
write_ops_fails(s, op, len) ==
    IF len = 0 THEN s
    ELSE [s EXCEPT !.files = Flush(@, s.writer.gen, <<OpsTorn(op, len)>>),
                   !.writer = [@ EXCEPT !.pos = @ + len]]

\* a set that keeps the locator of a key already indexed
SetInsertKeepOld(s, key, cmd) ==
    IF key \in DOMAIN s.database THEN s
    ELSE [s EXCEPT !.database = Insert(@, key, cmd)]

\* the locator swap of set, under the index lock
SetInsert(s, key, cmd) ==
    [s EXCEPT !.database = Insert(@, key, cmd),
              !.uncompacted = IF key \in DOMAIN s.database
                              THEN @ + s.database[key].len ELSE @]

\* the index removal of remove, under the index lock (key is indexed)
RemoveIndex(s, key) ==
    [s EXCEPT !.database = RemoveKey(@, key),
              !.uncompacted = @ + s.database[key].len]

\* a set that inserts its locator whatever the write returned
WriteHalfSetFailsInserted(s, key, val, len) ==
    [st  |-> SetInsert(write_ops_fails(s, OpsSet(key, val), len), key,
                       CommandPos(s.cur_gen, s.writer.pos, len)),
     res |-> ErrIo]

\* KvStoreWriteHalf::set when write_ops fails: the ? of line 314 returns
\* before the index is touched
WriteHalfSetFails(s, key, val, len) ==
    [st |-> write_ops_fails(s, OpsSet(key, val), len), res |-> ErrIo]

\* KvStoreWriteHalf::remove when write_ops fails (line 335): the key has
\* left the index and the counter has grown (lines 330-333)
WriteHalfRemoveFails(s, key, len) ==
    [st |-> write_ops_fails(RemoveIndex(s, key), OpsRm(key), len), res |-> ErrIo]

\* the copy loop of compact, over db.values_mut() in key order: copy the
\* len bytes at the locator to the compaction writer and retarget it
RECURSIVE CopyLoop(_, _, _, _, _, _)
CopyLoop(fs, db, keys, cg, new_pos, cache) ==
    IF keys = {} THEN [files |-> fs, database |-> db, new_pos |-> new_pos, cache |-> cache]
    ELSE LET key == SetMin(keys)
             cmd == db[key]
             rec == DecodeAt(fs[cmd.gen], 1, 0, cmd.pos, cmd.len)
             length == SerializedLen(rec)
         IN  CopyLoop([fs EXCEPT ![cg] = Append(@, rec)],
                      [db EXCEPT ![key] = CommandPos(cg, new_pos, length)],
                      keys \ {key}, cg, new_pos + length, cache \cup {cmd.gen})

\* a compaction that copies the records and leaves the locators alone
CompactCopyNoRetarget(s) ==
    LET cg == s.cur_gen + 1
        c == CopyLoop(CreateLog(s.files, cg), s.database, DOMAIN s.database, cg, 0, {})
    IN  [st |-> [s EXCEPT !.cur_gen = cg, !.files = c.files],
         compaction_writer |-> [gen |-> cg, pos |-> c.new_pos],
         readers_cache |-> c.cache]

\* compact, lines 348-380: advance the generation, open the compaction
\* segment, copy and retarget under the index lock, flush, release.  The
\* copy loop's view of the compaction segment is the compaction writer's
\* buffer, which line 376 flushes
CompactCopy(s) ==
    LET cg == s.cur_gen + 1
        c == CopyLoop(CreateLog(s.files, cg), s.database, DOMAIN s.database, cg, 0, {})
    IN  [st |-> [s EXCEPT !.cur_gen = cg,
                          !.files = Flush(CreateLog(s.files, cg), cg, c.files[cg]),
                          !.database = c.database],
         compaction_writer |-> [gen |-> cg, pos |-> c.new_pos],
         readers_cache |-> c.cache]

\* a compaction that leaves the watermark where it was
PublishStaleNever(s) == s

\* a compaction that publishes its own generation as stale
PublishStaleCurrent(s) == [s EXCEPT !.stale_gen = s.cur_gen]

\* compact, line 384
PublishStale(s) == [s EXCEPT !.stale_gen = s.cur_gen - 1]

\* compact, lines 389-393: the generations of the copy loop's source handles
GensToRemove(readers_cache, compaction_gen) == {g \in readers_cache : g < compaction_gen}

\* fs::remove_file
RemoveFile(s, gen) == [s EXCEPT !.files = [g \in (DOMAIN s.files) \ {gen} |-> s.files[g]]]

RECURSIVE RemoveFiles(_, _)
RemoveFiles(s, gens) ==
    IF gens = {} THEN s
    ELSE RemoveFiles(RemoveFile(s, SetMin(gens)), gens \ {SetMin(gens)})

\* a compaction that resets the counter and keeps the writer it had
CompactFinishOldWriter(s, compaction_writer) == [s EXCEPT !.uncompacted = 0]

\* compact, lines 399-400
CompactFinish(s, compaction_writer) ==
    [s EXCEPT !.writer = compaction_writer, !.uncompacted = 0]

\* KvStoreWriteHalf::compact
compact(s) ==
    LET c == CompactCopy(s)
    IN  CompactFinish(
            RemoveFiles(PublishStale(c.st), GensToRemove(c.readers_cache, c.st.cur_gen)),
            c.compaction_writer)

\* the I/O calls of compact that can return an error: open_logfile (350),
\* File::open and io::copy of the copy loop (363-370), flush (376),
\* fs::remove_file (396)
FailPoints == {"create", "copy", "flush", "remove"}

\* the bytes at the locator are those of a record
Readable(fs, cmd) ==
    cmd.gen \in DOMAIN fs /\ IsOps(DecodeAt(fs[cmd.gen], 1, 0, cmd.pos, cmd.len))

\* the copy loop can run over the first n locators
CanCopy(s, n) == \A k \in FirstKeys(s.database, n) : Readable(s.files, s.database[k])

\* the failures of compact the state allows: the copy loop fails at a
\* locator after n others, the flush fails with n = 0 records in the file,
\* the first fs::remove_file fails
Failures(s) ==
    {<<"create", 0>>}
    \cup {<<"copy", n>> : n \in {m \in 0..(Cardinality(DOMAIN s.database) - 1) : CanCopy(s, m)}}
    \cup (IF CanCopy(s, NumKeys) THEN {<<"flush", 0>>} ELSE {})
    \cup (IF /\ CanCopy(s, NumKeys)
              /\ GensToRemove({s.database[k].gen : k \in DOMAIN s.database}, s.cur_gen + 1) # {}
           THEN {<<"remove", 0>>} ELSE {})

\* compact leaving through one of its ?: line 348 has advanced cur_gen, the
\* locators copied so far are retargeted (373), the compaction writer is
\* dropped with the function's locals (its buffer is written out by the
\* drop, except after a failed flush), and lines 399-400 are not reached:
\* the writer and the counter stay as they were
CompactFails(s, point, n) ==
    LET cg == s.cur_gen + 1
        c == CopyLoop(CreateLog(s.files, cg), s.database, FirstKeys(s.database, n), cg, 0, {})
        all == CopyLoop(CreateLog(s.files, cg), s.database, DOMAIN s.database, cg, 0, {})
    IN  IF point = "create" THEN [s EXCEPT !.cur_gen = cg]
        ELSE IF point = "copy"
        THEN [s EXCEPT !.cur_gen = cg, !.files = c.files, !.database = c.database]
        ELSE IF point = "flush"
        THEN [s EXCEPT !.cur_gen = cg, !.files = CreateLog(s.files, cg),
                       !.database = all.database]
        ELSE PublishStale([s EXCEPT !.cur_gen = cg, !.files = all.files,
                                    !.database = all.database])

\* a check that also fires with the counter at the threshold
NeedsCompactionAtThreshold(s) == s.uncompacted >= COMPACTION_THRESHOLD

\* kvstore.rs 322 and 337
NeedsCompaction(s) == s.uncompacted > COMPACTION_THRESHOLD

\* KvStoreWriteHalf::set (mid: the state after the call's own update,
\* before the compaction it may run)
WriteHalfSet(s, key, val) ==
    LET w == write_ops(s, OpsSet(key, val))
        s2 == SetInsert(w.st, key, w.cmd)
    IN  [st |-> IF NeedsCompaction(s2) THEN compact(s2) ELSE s2, res |-> OkUnit, mid |-> s2]

\* a remove that appends its record before it looks the key up
WriteHalfRemoveBlind(s, key) ==
    LET w == write_ops(s, OpsRm(key)).st
    IN  IF key \in DOMAIN s.database
        THEN LET s2 == RemoveIndex(w, key)
             IN  [st |-> IF NeedsCompaction(s2) THEN compact(s2) ELSE s2,
                  res |-> OkUnit, mid |-> s2]
        ELSE [st |-> w, res |-> ErrKeyNotFound, mid |-> w]

\* KvStoreWriteHalf::remove
WriteHalfRemove(s, key) ==
    IF key \in DOMAIN s.database
    THEN LET s2 == write_ops(RemoveIndex(s, key), OpsRm(key)).st
         IN  [st |-> IF NeedsCompaction(s2) THEN compact(s2) ELSE s2, res |-> OkUnit, mid |-> s2]
    ELSE [st |-> s, res |-> ErrKeyNotFound, mid |-> s]

\* set and remove up to their own update, before the compaction they may run
SetMid(s, key, val) ==
    LET w == write_ops(s, OpsSet(key, val)) IN SetInsert(w.st, key, w.cmd)

RemoveMid(s, key) == write_ops(RemoveIndex(s, key), OpsRm(key)).st

\* ------------------------------------------------------------ reader half
\* a reader's handle cache: generation -> handle (its seek position)
EmptyCache == [g \in {} |-> 0]

\* KvStoreReadHalf::clean_stale_handle
clean_stale_handle(cache, stale) ==
    [g \in {x \in DOMAIN cache : x > stale} |-> cache[g]]

\* a copy that takes the offset from elsewhere than the generation and length
LookupTorn(db, key) ==
    IF key \in DOMAIN db THEN [db[key] EXCEPT !.pos = 0] ELSE CommandPos(0, 0, 0)

\* the index lookup of get, a copy of the locator under the index lock
Lookup(db, key) == IF key \in DOMAIN db THEN db[key] ELSE CommandPos(0, 0, 0)
Found(cmd) == cmd.gen # 0

\* read_op_at_pos, lines 232-251.  File::open is an argument of or_insert,
\* so the file is opened on every call, cached handle or not; the handle
\* is left at the end of the record
ReadAt(fs, cache, cmd) ==
    IF cmd.gen \notin DOMAIN fs
    THEN [cache |-> cache, res |-> ErrIo]
    ELSE [cache |-> (cmd.gen :> [pos |-> cmd.pos + cmd.len]) @@ cache,
          res   |-> DecodeAt(fs[cmd.gen], 1, 0, cmd.pos, cmd.len)]

\* KvStoreReadHalf::read_op_at_pos
read_op_at_pos(fs, stale, cache, cmd) ==
    ReadAt(fs, clean_stale_handle(cache, stale), cmd)

\* the match of get on the record it read
GetResult(ops) ==
    IF ~IsOps(ops) THEN ops
    ELSE IF ops.type = "Set" THEN OkSome(ops.val)
    ELSE ErrUnexpectedCommandType

\* KvStoreReadHalf::get on a reader half that starts with the given cache
ReadHalfGet(s, cache, key) ==
    LET cmd == Lookup(s.database, key)
    IN  IF Found(cmd)
        THEN LET r == read_op_at_pos(s.files, s.stale_gen, cache, cmd)
             IN  [cache |-> r.cache, res |-> GetResult(r.res)]
        ELSE [cache |-> cache, res |-> OkNone]

\* impl Clone for KvStoreReadHalf: the readers are not cloned
CloneReaders(cache) == EmptyCache

\* KvStore::get, run to completion: the result of get(key) in this state
KvGet(s, key) == ReadHalfGet(s, CloneReaders(EmptyCache), key).res

\* ------------------------------------------------------------------ state
VARIABLES
    files,          \* the directory: generation -> records of "<gen>.log"
    database,       \* the index, key -> CommandPos
    cur_gen,        \* KvStoreWriteHalf.cur_gen
    writer,         \* KvStoreWriteHalf.writer: its file and position
    stale_gen,      \* the shared AtomicU64
    uncompacted,    \* KvStoreWriteHalf.uncompacted
    reply,          \* the last call a client saw complete, with its result
    model,          \* reference map: the value of the last successful mutation (0: none)
    touched,        \* keys mutated successfully since the store was opened
    everSet,        \* keys ever set on this directory
    trail,          \* the last mutations and opens, oldest first
    compacted,      \* the last call ran a compaction
    preView,        \* get's results just before the last compaction started
    nmut,           \* mutations so far
    nopen,          \* opens so far
    \* pool tasks running the closures of KvStore::get / set / remove
    pc,             \* where each task stands
    arg,            \* the call a task runs: op, key, val
    cmdv,           \* the CommandPos a task holds (get: cmd; set: cmd_pos)
    result,         \* res, the value a task sends to its caller
    half,           \* the readers map the task's reader half owns
    readers,        \* the readers maps: 0 is the store's own half
    wlock,          \* the task holding the writer-half mutex, 0 if none
    compaction_writer,  \* locals of compact
    readers_cache,
    gens_to_remove,
    granted,        \* the mutations of this session in the order the mutex was granted
    opened,         \* the store as the last open left it
    seen,           \* per get: the values its key held while it ran
    capt,           \* per get: the value its key held when it copied the locator
    quiet,          \* per get: no mutation was in flight while it ran
    racing,         \* per get: a compaction was running while it ran
    overlap         \* two sets of distinct keys waited for the mutex together

storeVars == <<files, database, cur_gen, writer, stale_gen, uncompacted>>
ghostVars == <<reply, model, touched, everSet, trail, compacted, preView, nmut, nopen>>
taskVars == <<pc, arg, cmdv, result, half, readers, wlock,
              compaction_writer, readers_cache, gens_to_remove>>
taskGhosts == <<granted, opened, seen, capt, quiet, racing, overlap>>

\* the shared-queue thread pool (thread_pool/shared_queue.rs)
VARIABLES
    queue,          \* the mpsc channel: the messages sent and not yet received
    rlock,          \* the worker holding the receiver's mutex, 0 if none
    worker,         \* where each worker thread stands
    current,        \* the task a worker received, 0 if none
    pool,           \* the pool handle: live, or how far its drop has come
    nterm,          \* Terminate messages sent by drop
    njoin,          \* workers joined by drop
    nsub,           \* tasks submitted: their ids are 1..nsub
    started,        \* per task: times a worker began to run it
    finished,       \* per task: times its run ended, by return or by panic
    npanic,         \* tasks that panicked so far
    afterPanic      \* the tasks submitted after some task had panicked

poolVars == <<queue, rlock, worker, current, pool, nterm, njoin, nsub, started,
              finished, npanic, afterPanic>>

\* the server: its accept loop and the connections it was handed
VARIABLES
    flag,           \* the termination flag
    srv,            \* the accept loop: accept, check, exited
    conn,           \* per connection: its state, frames, command and response
    lateAccepts     \* connections accepted after the flag was set

srvVars == <<flag, srv, conn, lateAccepts>>
VARIABLES wmsg, wire, wres, wpc
wireVars == <<wmsg, wire, wres, wpc>>

\* a store root listed by sorted_gen_list
VARIABLES
    dir,            \* the entries of the directory: name and kind
    gen_list,       \* the Vec the last listing returned
    listed          \* the directory is as the last listing saw it

dirVars == <<dir, gen_list, listed>>

\* the facade: calls of KvStore::get / set / remove and what awaits them
VARIABLES
    call,           \* per call: the caller's side, none / await / done
    ftask,          \* per call: where the closure handed to the pool stands
    fres,           \* per call: res, the result the closure computed
    floc,           \* per call: the locals of the closure
    nspawn,         \* per call: tasks submitted to the pool for it
    wmutex,         \* the call whose task holds the writer mutex, 0 if none
    dmutex,         \* the call whose task holds the index mutex, 0 if none
    poison          \* the mutexes a panic has poisoned

facVars == <<call, ftask, fres, floc, nspawn, wmutex, dmutex, poison>>
moreVars == <<dirVars, facVars>>
sideVars == <<poolVars, srvVars, wireVars, moreVars>>

\* the oneshot channels of the facade's calls
VARIABLES
    rx              \* per task: the receiving end (the caller's future) is alive

dropVars == <<rx>>
vars == <<storeVars, ghostVars, taskVars, taskGhosts, dropVars, sideVars>>

\* the store in the current state
Cur == Store(files, database, cur_gen, writer, stale_gen, uncompacted)

Install(s) ==
    /\ files' = s.files
    /\ database' = s.database
    /\ cur_gen' = s.cur_gen
    /\ writer' = s.writer
    /\ stale_gen' = s.stale_gen
    /\ uncompacted' = s.uncompacted

\* what get returns for every key on store s
View(s) == [k \in Keys |-> KvGet(s, k)]

\* what the reference map says get returns
Expected(v) == IF v = 0 THEN OkNone ELSE OkSome(v)

NoView == [k \in {} |-> OkNone]
Event(op, key, val) == [op |-> op, key |-> key, val |-> val]
\* the trail keeps the last three events
Push(t, e) == IF Len(t) < 3 THEN Append(t, e) ELSE Append(Tail(t), e)
Call(op, key, val, res) == [op |-> op, key |-> key, val |-> val, res |-> res]

NumTasks == 2
Tasks == 1..NumTasks
Halves == 0..NumTasks
NoArg == Event("none", 0, 0)
NoCmd == CommandPos(0, 0, 0)
NoWriter == [gen |-> 0, pos |-> 0]

\* ------------------------------------------------- the shared-queue pool
Workers == 1..NumThreads
TaskIds == 1..MaxTasks

\* enum Message
NewTask(id) == [type |-> "NewTask", id |-> id]
Terminate == [type |-> "Terminate", id |-> 0]

ErrThreadPanic == Res("ThreadPanic", 0)
\* a panic that leaves the closure it was raised in
Unwind == Res("Unwind", 0)

\* a call that lets the panic of the task through
call_from_box_uncaught(outcome) == IF outcome = "panic" THEN Unwind ELSE OkUnit

\* FnBox::call_from_box: catch_unwind turns the panic of the task into an Err
call_from_box(outcome) == IF outcome = "panic" THEN ErrThreadPanic ELSE OkUnit

\* the loop of Worker::new after a task: an Err is logged and the loop
\* goes on; a panic that reaches the thread's closure ends the thread
WorkerLoop(res) == IF res = Unwind THEN "dead" ELSE "lock"

\* a drop that does not wait for the threads
JoinDetached(state) == TRUE

\* JoinHandle::join returns once the thread has ended
JoinReturns(state) == state \in {"exited", "dead"}

\* SharedQueueThreadPool::new: an empty channel and capacity workers
PoolNew ==
    /\ queue = <<>>
    /\ rlock = 0
    /\ worker = [w \in Workers |-> "lock"]
    /\ current = [w \in Workers |-> 0]
    /\ pool = "live"
    /\ nterm = 0
    /\ njoin = 0
    /\ nsub = 0
    /\ started = [i \in TaskIds |-> 0]
    /\ finished = [i \in TaskIds |-> 0]
    /\ npanic = 0
    /\ afterPanic = {}

\* --------------------------------------------- the server: data and start
Conns == 1..MaxConns

\* enum Command
CmdGet(key) == Event("get", key, 0)
CmdSet(key, val) == Event("set", key, val)
CmdRemove(key) == Event("remove", key, 0)
Commands ==
    {CmdGet(k) : k \in Keys} \cup {CmdSet(k, v) : k \in Keys, v \in Vals}
        \cup {CmdRemove(k) : k \in Keys}

\* Response::success / Response::failure
Success(message) == [success |-> TRUE, message |-> message]
Failure(message) == [success |-> FALSE, message |-> message]
NoResponse == Failure("")

\* the text of value v
ValText(v) == ToString(v)

\* an error text taken from the kind's name
ErrorTextDebug(kind) == kind

\* impl Display for KVError: the #[fail(display = ...)] text of its kind
ErrorText(kind) ==
    CASE kind = "KeyNotFound" -> "Key not found"
      [] kind = "Io" -> "Io Error"
      [] kind = "UnexpectedCommandType" -> "Unexpected Command Type for key"
      [] kind = "Serde" -> "Json parsing error"
      [] kind = "ThreadPanic" -> "ThreadPool thread Panicked"
      [] OTHER -> "Unknwon Error"

\* the response for an engine result: the value of a Get hit, an empty
\* message for a miss and for Set / Remove, the error's text otherwise
Respond(res) ==
    IF res.kind = "Some" THEN Success(ValText(res.val))
    ELSE IF res.kind \in {"None", "Ok"} THEN Success("")
    ELSE Failure(ErrorText(res.kind))

\* per-connection processing ends with close
AfterResponse(st) == "Closed"

\* a loop that hands the connection over and goes back to accept, whatever the flag
AfterCheckNever(terminate) == "accept"

\* the accept loop after its check of the flag
AfterCheck(terminate) == IF terminate THEN "exited" ELSE "accept"

NoConn ==
    [st |-> "none", inbound |-> <<>>, nsent |-> 0, cmd |-> NoArg, res |-> OkUnit,
     resp |-> NoResponse, nproc |-> 0, outbound |-> <<>>, seen |-> OkNone]

\* KvServer::new, run() about to call accept
ServerNew ==
    /\ flag = FALSE
    /\ srv = "accept"
    /\ conn = [c \in Conns |-> NoConn]
    /\ lateAccepts = 0

\* ------------------------------------------------------- the wire protocol
\* bytes are numbers 0..255; the characters the messages are made of
Ascii(c) ==
    CASE c = "{" -> 123 [] c = "}" -> 125 [] c = "\"" -> 34 [] c = "\\" -> 92
      [] c = ":" -> 58 [] c = "," -> 44
      [] c = "G" -> 71 [] c = "S" -> 83 [] c = "R" -> 82
      [] c = "a" -> 97 [] c = "c" -> 99 [] c = "e" -> 101 [] c = "f" -> 102
      [] c = "g" -> 103 [] c = "k" -> 107 [] c = "l" -> 108 [] c = "m" -> 109
      [] c = "o" -> 111 [] c = "r" -> 114 [] c = "s" -> 115 [] c = "t" -> 116
      [] c = "u" -> 117 [] c = "v" -> 118 [] c = "y" -> 121

Bytes(cs) == [i \in 1..Len(cs) |-> Ascii(cs[i])]

Quote == 34
Backslash == 92

\* the strings of keys, values and messages: a letter, a quote, a backslash
StrBytes == {97, Quote, Backslash}
Strs == UNION {[1..n -> StrBytes] : n \in 0..MaxStr}

\* Command and Response as values
WGet(key) == [type |-> "Get", key |-> key]
WSet(key, val) == [type |-> "Set", key |-> key, val |-> val]
WRemove(key) == [type |-> "Remove", key |-> key]
WResponse(success, message) == [type |-> "Response", success |-> success, message |-> message]

WCommands ==
    {WGet(k) : k \in Strs} \cup {WRemove(k) : k \in Strs}
        \cup {WSet(k, v) : k \in Strs, v \in Strs}
WResponses == {WResponse(b, m) : b \in BOOLEAN, m \in Strs}
Messages == WCommands \cup WResponses

\* the type the reader asks for
TypeOf(m) == IF m.type = "Response" THEN "Response" ELSE "Command"

\* serde_json: a string between quotes, quote and backslash escaped
RECURSIVE Escape(_)
Escape(str) ==
    IF str = <<>> THEN <<>>
    ELSE (IF Head(str) \in {Quote, Backslash} THEN <<Backslash, Head(str)>>
          ELSE <<Head(str)>>) \o Escape(Tail(str))

JsonStr(str) == <<Quote>> \o Escape(str) \o <<Quote>>

LitGet == Bytes(<<"{", "\"", "G", "e", "t", "\"", ":", "{", "\"", "k", "e", "y", "\"", ":">>)
LitSet == Bytes(<<"{", "\"", "S", "e", "t", "\"", ":", "{", "\"", "k", "e", "y", "\"", ":">>)
LitRemove ==
    Bytes(<<"{", "\"", "R", "e", "m", "o", "v", "e", "\"", ":", "{",
            "\"", "k", "e", "y", "\"", ":">>)
LitVal == Bytes(<<",", "\"", "v", "a", "l", "\"", ":">>)
LitSuccess == Bytes(<<"{", "\"", "s", "u", "c", "c", "e", "s", "s", "\"", ":">>)
LitTrue == Bytes(<<"t", "r", "u", "e">>)
LitFalse == Bytes(<<"f", "a", "l", "s", "e">>)
LitMessage == Bytes(<<",", "\"", "m", "e", "s", "s", "a", "g", "e", "\"", ":">>)
LitClose == Bytes(<<"}">>)

\* serde_json::to_vec of a Command (externally tagged enum) or a Response
to_vec(m) ==
    CASE m.type = "Get" -> LitGet \o JsonStr(m.key) \o LitClose \o LitClose
      [] m.type = "Set" ->
            LitSet \o JsonStr(m.key) \o LitVal \o JsonStr(m.val) \o LitClose \o LitClose
      [] m.type = "Remove" -> LitRemove \o JsonStr(m.key) \o LitClose \o LitClose
      [] m.type = "Response" ->
            LitSuccess \o (IF m.success THEN LitTrue ELSE LitFalse)
                \o LitMessage \o JsonStr(m.message) \o LitClose

\* write_u64::<NetworkEndian> of a length below 2^24: five zero bytes, then
\* the three low bytes, most significant first
write_u64(n) ==
    [i \in 1..8 |-> IF i <= 5 THEN 0
                    ELSE IF i = 6 THEN (n \div 65536) % 256
                    ELSE IF i = 7 THEN (n \div 256) % 256
                    ELSE n % 256]

\* a length no stream of the model reaches
HugeLen == 16777216

\* read_u64::<NetworkEndian>; a value of 2^24 or more is only ever the limit
\* of take(), so it is kept as HugeLen
read_u64(buf) ==
    IF \E i \in 1..5 : buf[i] # 0 THEN HugeLen
    ELSE buf[6] * 65536 + buf[7] * 256 + buf[8]

\* protocol::write: the length, then the content
protocol_write(content) == write_u64(Len(to_vec(content))) \o to_vec(content)

Min(a, b) == IF a < b THEN a ELSE b

WErr == [ok |-> FALSE, val |-> WGet(<<>>)]
WOk(m) == [ok |-> TRUE, val |-> m]

Expect(b, p, lit) ==
    /\ p + Len(lit) - 1 <= Len(b)
    /\ SubSeq(b, p, p + Len(lit) - 1) = lit

\* serde_json reading a string: from the opening quote to the closing one
RECURSIVE ScanStr(_, _, _)
ScanStr(b, p, acc) ==
    IF p > Len(b) THEN [ok |-> FALSE, val |-> <<>>, next |-> p]
    ELSE IF b[p] = Quote THEN [ok |-> TRUE, val |-> acc, next |-> p + 1]
    ELSE IF b[p] = Backslash
    THEN IF p + 1 <= Len(b) /\ b[p + 1] \in {Quote, Backslash}
         THEN ScanStr(b, p + 2, Append(acc, b[p + 1]))
         ELSE [ok |-> FALSE, val |-> <<>>, next |-> p]
    ELSE ScanStr(b, p + 1, Append(acc, b[p]))

ParseStr(b, p) ==
    IF p <= Len(b) /\ b[p] = Quote THEN ScanStr(b, p + 1, <<>>)
    ELSE [ok |-> FALSE, val |-> <<>>, next |-> p]

\* the value ends the input: from_reader fails on trailing characters
EndsWith(b, p, lit) == Expect(b, p, lit) /\ p + Len(lit) - 1 = Len(b)

ParseKeyOnly(b, lit, type) ==
    LET k == ParseStr(b, Len(lit) + 1)
    IN IF k.ok /\ EndsWith(b, k.next, LitClose \o LitClose)
       THEN WOk([type |-> type, key |-> k.val]) ELSE WErr

ParseSet(b) ==
    LET k == ParseStr(b, Len(LitSet) + 1)
    IN IF k.ok /\ Expect(b, k.next, LitVal)
       THEN LET v == ParseStr(b, k.next + Len(LitVal))
            IN IF v.ok /\ EndsWith(b, v.next, LitClose \o LitClose)
               THEN WOk(WSet(k.val, v.val)) ELSE WErr
       ELSE WErr

ParseResponse(b) ==
    LET p == Len(LitSuccess) + 1
        flagTrue == Expect(b, p, LitTrue)
        flagFalse == Expect(b, p, LitFalse)
        q == IF flagTrue THEN p + Len(LitTrue) ELSE p + Len(LitFalse)
    IN IF (flagTrue \/ flagFalse) /\ Expect(b, q, LitMessage)
       THEN LET m == ParseStr(b, q + Len(LitMessage))
            IN IF m.ok /\ EndsWith(b, m.next, LitClose)
               THEN WOk(WResponse(flagTrue, m.val)) ELSE WErr
       ELSE WErr

\* serde_json::from_reader::<T>: one value of type T, then end of input
from_reader(type, b) ==
    IF type = "Command"
    THEN IF Expect(b, 1, LitGet) THEN ParseKeyOnly(b, LitGet, "Get")
         ELSE IF Expect(b, 1, LitRemove) THEN ParseKeyOnly(b, LitRemove, "Remove")
         ELSE IF Expect(b, 1, LitSet) THEN ParseSet(b)
         ELSE WErr
    ELSE IF Expect(b, 1, LitSuccess) THEN ParseResponse(b) ELSE WErr

\* protocol::read on a stream whose first read returns `first` bytes: that
\* many bytes (at most 8) land in length_buffer, the rest of it stays zero;
\* the structure is read from the `length` bytes that follow
protocol_read(type, stream, first) ==
    LET got == Min(Min(first, 8), Len(stream))
        length_buffer == [i \in 1..8 |-> IF i <= got THEN stream[i] ELSE 0]
        length == read_u64(length_buffer)
        taken == Min(length, Len(stream) - got)
        structure == from_reader(type, SubSeq(stream, got + 1, got + taken))
    IN [ok |-> structure.ok, val |-> structure.val, consumed |-> got + taken]

WireNew ==
    /\ wmsg = WGet(<<>>)
    /\ wire = <<>>
    /\ wres = [ok |-> FALSE, val |-> WGet(<<>>), consumed |-> 0]
    /\ wpc = "new"

\* ------------------------------------------------- the names of a root
\* a file name is the sequence of its characters
DigitChars == <<"0", "1", "2", "3", "4", "5", "6", "7", "8", "9">>
IsDigit(c) == \E i \in 1..10 : DigitChars[i] = c
DigitVal(c) == (CHOOSE i \in 1..10 : DigitChars[i] = c) - 1
DotLog == <<".", "l", "o", "g">>

\* the names met in a root: segments, the engine-kind file, other files
Names ==
    { <<"1">> \o DotLog, <<"2">> \o DotLog, <<"1", "0">> \o DotLog,
      <<"0", "1">> \o DotLog, <<"+", "1">> \o DotLog, <<"-", "1">> \o DotLog,
      <<"1">> \o DotLog \o DotLog, <<"a">> \o DotLog, DotLog,
      <<"1", ".", "t", "x", "t">>, <<"1", "l", "o", "g">>,
      <<"e", "n", "g", "i", "n", "e">> }
Kinds == {"file", "dir"}

\* Path::extension: the part of the file name after its last dot; none
\* when there is no dot or the only dot is the first character
LastDot(name) ==
    IF \E i \in 1..Len(name) : name[i] = "."
    THEN SetMax({i \in 1..Len(name) : name[i] = "."}) ELSE 0

extension(name) ==
    IF LastDot(name) <= 1 THEN [some |-> FALSE, ext |-> <<>>]
    ELSE [some |-> TRUE, ext |-> SubSeq(name, LastDot(name) + 1, Len(name))]

HasSuffix(str, pat) ==
    Len(str) >= Len(pat) /\ SubSeq(str, Len(str) - Len(pat) + 1, Len(str)) = pat

\* str::trim_end_matches: the pattern is taken off the end as often as it
\* is found there
RECURSIVE trim_end_matches(_, _)
trim_end_matches(str, pat) ==
    IF HasSuffix(str, pat)
    THEN trim_end_matches(SubSeq(str, 1, Len(str) - Len(pat)), pat)
    ELSE str

RECURSIVE DecimalValue(_)
DecimalValue(digits) ==
    IF digits = <<>> THEN 0
    ELSE 10 * DecimalValue(SubSeq(digits, 1, Len(digits) - 1)) + DigitVal(digits[Len(digits)])

\* str::parse::<u64>: an optional "+", then one or more decimal digits
\* (names here are too short for the value to overflow)
parse_u64(str) ==
    LET digits == IF str # <<>> /\ str[1] = "+" THEN Tail(str) ELSE str
    IN  IF digits # <<>> /\ \A i \in 1..Len(digits) : IsDigit(digits[i])
        THEN [ok |-> TRUE, val |-> DecimalValue(digits)]
        ELSE [ok |-> FALSE, val |-> 0]

\* format!("{}", gen)
RECURSIVE Decimal(_)
Decimal(n) ==
    IF n < 10 THEN <<DigitChars[n + 1]>>
    ELSE Decimal(n \div 10) \o <<DigitChars[(n % 10) + 1]>>

\* log_path: the file name it joins to the root
log_path(gen) == Decimal(gen) \o DotLog

\* the entries sorted_gen_list keeps (the filter of line 15 and the parse
\* of lines 16-22)
Kept(entries) ==
    {e \in entries : /\ e.kind = "file"
                     /\ extension(e.name) = [some |-> TRUE, ext |-> <<"l", "o", "g">>]
                     /\ parse_u64(trim_end_matches(e.name, DotLog)).ok}

GenOf(e) == parse_u64(trim_end_matches(e.name, DotLog)).val

\* sort_unstable of the collected generations
RECURSIVE SortGens(_)
SortGens(kept) ==
    IF kept = {} THEN <<>>
    ELSE LET e == CHOOSE x \in kept : \A y \in kept : GenOf(x) <= GenOf(y)
         IN  <<GenOf(e)>> \o SortGens(kept \ {e})

sorted_gen_list(entries) == SortGens(Kept(entries))

\* ------------------------------------------------------------ the facade
Calls == 1..MaxCalls
Ops3 ==
    {Event("get", key, 0) : key \in Keys}
    \cup {Event("set", key, val) : key \in Keys, val \in Vals}
    \cup {Event("remove", key, 0) : key \in Keys}

\* error.rs 98-102: the RecvError of the oneshot channel
ErrTokioSync == Res("TokioSyncError", 0)

\* a receiver that only a sent value wakes
ResolvedBySendOnly(state) == state = "sent"

\* tokio oneshot: the receiver resolves when a value was sent or the sender
\* was dropped, as it is when the closure unwinds
Resolved(state) == state \in {"sent", "dropped"}

\* the match on receiver.await, lines 130-133, 146-149, 163-166
Received(state, res) == IF state = "sent" THEN res ELSE ErrTokioSync

\* the locals of a closure: cmd / cmd_pos, and compact's compaction_writer
\* and readers_cache
NoLocals == [cmd |-> CommandPos(0, 0, 0), cw |-> [gen |-> 0, pos |-> 0], rc |-> {}]

\* where a closure stands: waiting for the writer mutex, waiting for the
\* index mutex, holding the index mutex
WLockPcs == {"set_wlock", "rm_wlock"}
DLockPcs == {"get_dlock", "set_dlock", "rm_dlock", "cmp_dlock"}
DHeldPcs == {"get_copy", "set_insert", "rm_index", "cmp_copy"}
EndPcs == {"sent", "dropped"}
OnWorker(state) == state \notin {"none", "queued"} \cup EndPcs

\* the first statement of the closure
FirstPc(op) ==
    IF op = "get" THEN "get_dlock" ELSE IF op = "set" THEN "set_wlock" ELSE "rm_wlock"

\* the statement after a granted lock
AfterLock(state) ==
    CASE state = "set_wlock" -> "set_write"
      [] state = "rm_wlock" -> "rm_dlock"
      [] state = "get_dlock" -> "get_copy"
      [] state = "set_dlock" -> "set_insert"
      [] state = "rm_dlock" -> "rm_index"
      [] state = "cmp_dlock" -> "cmp_copy"

\* a guard that lives on to the end of set
IndexGuardKept(holder) == holder

\* the guard of line 317 is a temporary of the if let: it is dropped at
\* line 320, before the check of the counter and compact
IndexGuardAfterInsert(holder) == 0

FacadeNew ==
    /\ call = [c \in Calls |-> [st |-> "none", op |-> NoArg, res |-> OkUnit]]
    /\ ftask = [c \in Calls |-> "none"]
    /\ fres = [c \in Calls |-> OkUnit]
    /\ floc = [c \in Calls |-> NoLocals]
    /\ nspawn = [c \in Calls |-> 0]
    /\ wmutex = 0
    /\ dmutex = 0
    /\ poison = {}

DirNew ==
    /\ dir = {}
    /\ gen_list = <<>>
    /\ listed = TRUE

\* the state after KvStore::open on an empty directory
Init ==
    /\ LET s == KvOpen([g \in {} |-> <<>>])
       IN  /\ files = s.files
           /\ database = s.database
           /\ cur_gen = s.cur_gen
           /\ writer = s.writer
           /\ stale_gen = s.stale_gen
           /\ uncompacted = s.uncompacted
    /\ reply = Call("open", 0, 0, OkUnit)
    /\ model = [k \in Keys |-> 0]
    /\ touched = {}
    /\ everSet = {}
    /\ trail = <<Event("open", 0, 0)>>
    /\ compacted = FALSE
    /\ preView = NoView
    /\ nmut = 0
    /\ nopen = 1
    /\ pc = [t \in Tasks |-> "idle"]
    /\ arg = [t \in Tasks |-> NoArg]
    /\ cmdv = [t \in Tasks |-> NoCmd]
    /\ result = [t \in Tasks |-> OkUnit]
    /\ half = [t \in Tasks |-> 0]
    /\ readers = [h \in Halves |-> EmptyCache]
    /\ wlock = 0
    /\ compaction_writer = NoWriter
    /\ readers_cache = {}
    /\ gens_to_remove = {}
    /\ granted = <<>>
    /\ opened = KvOpen([g \in {} |-> <<>>])
    /\ seen = [t \in Tasks |-> {}]
    /\ capt = [t \in Tasks |-> OkNone]
    /\ quiet = [t \in Tasks |-> TRUE]
    /\ racing = [t \in Tasks |-> FALSE]
    /\ overlap = FALSE
    /\ rx = [t \in Tasks |-> TRUE]
    /\ PoolNew
    /\ ServerNew
    /\ WireNew
    /\ DirNew
    /\ FacadeNew

\* ------------------------------------------------- calls, one at a time
\* KvStore::set awaited by its caller
Set(key, val) ==
    /\ nmut < MaxMutations
    /\ LET r == WriteHalfSet(Cur, key, val)
       IN  /\ Install(r.st)
           /\ reply' = Call("set", key, val, r.res)
           /\ compacted' = NeedsCompaction(r.mid)
           /\ preView' = IF NeedsCompaction(r.mid) THEN View(r.mid) ELSE NoView
    /\ model' = [model EXCEPT ![key] = val]
    /\ touched' = touched \cup {key}
    /\ everSet' = everSet \cup {key}
    /\ trail' = Push(trail, Event("set", key, val))
    /\ nmut' = nmut + 1
    /\ UNCHANGED <<nopen, taskVars, taskGhosts>>
    /\ UNCHANGED sideVars
    /\ UNCHANGED dropVars

\* KvStore::remove awaited by its caller
Remove(key) ==
    LET r == WriteHalfRemove(Cur, key)
    IN  /\ r.res = OkUnit => nmut < MaxMutations
        /\ Install(r.st)
        /\ reply' = Call("remove", key, 0, r.res)
        /\ compacted' = NeedsCompaction(r.mid)
        /\ preView' = IF NeedsCompaction(r.mid) THEN View(r.mid) ELSE NoView
        /\ IF r.res = OkUnit
           THEN /\ model' = [model EXCEPT ![key] = 0]
                /\ touched' = touched \cup {key}
                /\ trail' = Push(trail, Event("remove", key, 0))
                /\ nmut' = nmut + 1
           ELSE UNCHANGED <<model, touched, trail, nmut>>
        /\ UNCHANGED <<nopen, everSet, taskVars, taskGhosts>>
        /\ UNCHANGED sideVars
        /\ UNCHANGED dropVars

\* KvStore::get awaited by its caller; the clone's cache dies with the task
Get(key) ==
    /\ reply' = Call("get", key, 0, KvGet(Cur, key))
    /\ compacted' = FALSE
    /\ preView' = NoView
    /\ UNCHANGED <<storeVars, model, touched, everSet, trail, nmut, nopen,
                   taskVars, taskGhosts>>
    /\ UNCHANGED sideVars
    /\ UNCHANGED dropVars

\* drop(store); KvStore::open on the same directory.  Dropping the store
\* drops its pool, which runs every submitted task to its end first.
Reopen ==
    /\ nopen < MaxOpens
    /\ \A t \in Tasks : pc[t] = "idle"
    /\ OpenResult(files) = OkUnit
    /\ Install(KvOpen(files))
    /\ reply' = Call("open", 0, 0, OkUnit)
    /\ touched' = {}
    /\ trail' = Push(trail, Event("open", 0, 0))
    /\ compacted' = FALSE
    /\ preView' = NoView
    /\ nopen' = nopen + 1
    /\ granted' = <<>>
    /\ opened' = KvOpen(files)
    /\ UNCHANGED <<model, everSet, nmut, taskVars, seen, capt, quiet, racing, overlap>>
    /\ UNCHANGED sideVars
    /\ UNCHANGED dropVars

Next ==
    \/ \E key \in Keys, val \in Vals : Set(key, val)
    \/ \E key \in Keys : Remove(key)
    \/ \E key \in Keys : Get(key)
    \/ Reopen

Spec == Init /\ [][Next]_vars

\* ---------------------------------------------- calls that meet a failure
\* a store is open
Live == cur_gen > 0

\* KvStore::set whose write fails with an I/O error
SetFails(key, val) ==
    /\ Live
    /\ nmut < MaxMutations
    /\ \E len \in TornLens(OpsSet(key, val)) :
          LET r == WriteHalfSetFails(Cur, key, val, len)
          IN  /\ Install(r.st)
              /\ reply' = Call("set", key, val, r.res)
    /\ nmut' = nmut + 1
    /\ compacted' = FALSE
    /\ preView' = NoView
    /\ UNCHANGED <<model, touched, everSet, trail, nopen, taskVars, taskGhosts>>
    /\ UNCHANGED sideVars
    /\ UNCHANGED dropVars

\* KvStore::remove of an indexed key whose write fails with an I/O error
RemoveFails(key) ==
    /\ Live
    /\ nmut < MaxMutations
    /\ key \in DOMAIN database
    /\ \E len \in TornLens(OpsRm(key)) :
          LET r == WriteHalfRemoveFails(Cur, key, len)
          IN  /\ Install(r.st)
              /\ reply' = Call("remove", key, 0, r.res)
    /\ model' = [model EXCEPT ![key] = 0]
    /\ touched' = touched \cup {key}
    /\ nmut' = nmut + 1
    /\ compacted' = FALSE
    /\ preView' = NoView
    /\ UNCHANGED <<everSet, trail, nopen, taskVars, taskGhosts>>
    /\ UNCHANGED sideVars
    /\ UNCHANGED dropVars

\* KvStore::set whose compaction fails: the ? of line 323 returns the
\* error of compact after the record is written and its locator inserted
SetCompactFails(key, val) ==
    /\ Live
    /\ nmut < MaxMutations
    /\ NeedsCompaction(SetMid(Cur, key, val))
    /\ \E f \in Failures(SetMid(Cur, key, val)) :
          Install(CompactFails(SetMid(Cur, key, val), f[1], f[2]))
    /\ reply' = Call("set", key, val, ErrIo)
    /\ model' = [model EXCEPT ![key] = val]
    /\ touched' = touched \cup {key}
    /\ everSet' = everSet \cup {key}
    /\ trail' = Push(trail, Event("set", key, val))
    /\ nmut' = nmut + 1
    /\ compacted' = TRUE
    /\ preView' = View(SetMid(Cur, key, val))
    /\ UNCHANGED <<nopen, taskVars, taskGhosts>>
    /\ UNCHANGED sideVars
    /\ UNCHANGED dropVars

\* KvStore::remove whose compaction fails (the ? of line 338)
RemoveCompactFails(key) ==
    /\ Live
    /\ nmut < MaxMutations
    /\ key \in DOMAIN database
    /\ NeedsCompaction(RemoveMid(Cur, key))
    /\ \E f \in Failures(RemoveMid(Cur, key)) :
          Install(CompactFails(RemoveMid(Cur, key), f[1], f[2]))
    /\ reply' = Call("remove", key, 0, ErrIo)
    /\ model' = [model EXCEPT ![key] = 0]
    /\ touched' = touched \cup {key}
    /\ trail' = Push(trail, Event("remove", key, 0))
    /\ nmut' = nmut + 1
    /\ compacted' = TRUE
    /\ preView' = View(RemoveMid(Cur, key))
    /\ UNCHANGED <<nopen, everSet, taskVars, taskGhosts>>
    /\ UNCHANGED sideVars
    /\ UNCHANGED dropVars

\* the compaction the call would run can read every locator
SetRuns(key, val) ==
    NeedsCompaction(SetMid(Cur, key, val)) => CanCopy(SetMid(Cur, key, val), NumKeys)

RemoveRuns(key) ==
    (key \in DOMAIN database /\ NeedsCompaction(RemoveMid(Cur, key)))
        => CanCopy(RemoveMid(Cur, key), NumKeys)

\* KvStore::open as a whole: the store, or no store and the error
OpenOn(fs) ==
    /\ Install(IF OpenResult(fs) = OkUnit THEN KvOpen(fs) ELSE NoStore(fs))
    /\ opened' = (IF OpenResult(fs) = OkUnit THEN KvOpen(fs) ELSE NoStore(fs))
    /\ reply' = Call("open", 0, 0, OpenResult(fs))
    /\ touched' = {}
    /\ compacted' = FALSE
    /\ preView' = NoView
    /\ nopen' = nopen + 1
    /\ granted' = <<>>
    /\ UNCHANGED <<model, everSet, taskVars, seen, capt, quiet, racing, overlap>>
    /\ UNCHANGED sideVars
    /\ UNCHANGED dropVars

\* the process dies inside the write of a set, part of the record in the
\* file, and KvStore::open runs on the directory
CrashInSet(key, val) ==
    /\ Live
    /\ nmut < MaxMutations
    /\ nopen < MaxOpens
    /\ \E len \in TornLens(OpsSet(key, val)) \ {0} :
          OpenOn(write_ops_fails(Cur, OpsSet(key, val), len).files)
    /\ trail' = Push(trail, Event("crash", 0, 0))
    /\ nmut' = nmut + 1

\* drop(store); KvStore::open on a directory whose replay fails
ReopenFails ==
    /\ nopen < MaxOpens
    /\ OpenResult(files) # OkUnit
    /\ OpenOn(files)
    /\ trail' = Push(trail, Event("open", 0, 0))
    /\ UNCHANGED nmut

NextFault ==
    \/ \E key \in Keys, val \in Vals : Live /\ SetRuns(key, val) /\ Set(key, val)
    \/ \E key \in Keys : Live /\ RemoveRuns(key) /\ Remove(key)
    \/ \E key \in Keys : Live /\ Get(key)
    \/ Live /\ Reopen
    \/ \E key \in Keys, val \in Vals : SetFails(key, val)
    \/ \E key \in Keys : RemoveFails(key)
    \/ \E key \in Keys, val \in Vals : SetCompactFails(key, val)
    \/ \E key \in Keys : RemoveCompactFails(key)
    \/ \E key \in Keys, val \in Vals : CrashInSet(key, val)
    \/ ReopenFails

SpecFault == Init /\ [][NextFault]_vars

\* ------------------------------------------------ calls, run concurrently
\* Each call of the facade moves a closure to the pool; a task is the
\* closure running on a worker.  A step is one access to shared state: the
\* index (under its lock), the watermark, the directory, the writer mutex.
GetPcs == {"get_lookup", "get_clean", "get_read", "get_send"}
LockPcs == {"set_lock", "rm_lock"}
CompactPcs == {"compact_copy", "compact_publish", "compact_remove"}
CritPcs == {"set_write", "set_insert", "rm_index", "rm_write"} \cup CompactPcs

Goto(t, label) == pc' = [pc EXCEPT ![t] = label]

\* a lock that never excludes
MutexAlwaysFree(holder) == TRUE

\* Mutex::lock on the writer half succeeds
MutexFree(holder) == holder = 0

\* a clone that shares its parent's map
ReadHalfCloneShared(parent, fresh) == parent

\* impl Clone for KvStoreReadHalf, line 190: the clone owns the new map
ReadHalfClone(parent, fresh) == fresh

\* the index changes key's value: every get of key in flight has seen it
Observe(key, v) ==
    seen' = [t \in Tasks |->
                IF pc[t] \in GetPcs /\ arg[t].key = key
                THEN seen[t] \cup {Expected(v)} ELSE seen[t]]

\* KvStore::get, lines 116-128: clone the reader half, spawn the closure
SpawnGet(t, key) ==
    /\ pc[t] = "idle"
    /\ Goto(t, "get_lookup")
    /\ arg' = [arg EXCEPT ![t] = Event("get", key, 0)]
    /\ half' = [half EXCEPT ![t] = ReadHalfClone(0, t)]
    /\ readers' = [readers EXCEPT ![t] = CloneReaders(readers[0])]
    /\ seen' = [seen EXCEPT ![t] = {Expected(model[key])}]
    /\ quiet' = [quiet EXCEPT ![t] = \A u \in Tasks : pc[u] \in GetPcs \cup {"idle"}]
    /\ racing' = [racing EXCEPT ![t] = \E u \in Tasks : pc[u] \in CompactPcs]
    /\ UNCHANGED <<storeVars, ghostVars, cmdv, result, wlock, compaction_writer,
                   readers_cache, gens_to_remove, granted, opened, capt, overlap>>
    /\ UNCHANGED sideVars
    /\ UNCHANGED dropVars

\* a lookup that takes the locator out of the index
GetLookupTake(t) ==
    /\ pc[t] = "get_lookup"
    /\ LET cmd == Lookup(database, arg[t].key)
       IN  /\ cmdv' = [cmdv EXCEPT ![t] = cmd]
           /\ database' = RemoveKey(database, arg[t].key)
           /\ IF Found(cmd)
              THEN Goto(t, "get_clean") /\ UNCHANGED result
              ELSE Goto(t, "get_send") /\ result' = [result EXCEPT ![t] = OkNone]
    /\ capt' = [capt EXCEPT ![t] = Expected(model[arg[t].key])]
    /\ UNCHANGED <<files, cur_gen, writer, stale_gen, uncompacted, ghostVars, arg, half,
                   readers, wlock, compaction_writer, readers_cache, gens_to_remove,
                   granted, opened, seen, quiet, racing, overlap>>
    /\ UNCHANGED sideVars
    /\ UNCHANGED dropVars

\* KvStoreReadHalf::get, line 256: copy the locator under the index lock
GetLookup(t) ==
    /\ pc[t] = "get_lookup"
    /\ LET cmd == Lookup(database, arg[t].key)
       IN  /\ cmdv' = [cmdv EXCEPT ![t] = cmd]
           /\ IF Found(cmd)
              THEN Goto(t, "get_clean") /\ UNCHANGED result
              ELSE Goto(t, "get_send") /\ result' = [result EXCEPT ![t] = OkNone]
    /\ capt' = [capt EXCEPT ![t] = Expected(model[arg[t].key])]
    /\ UNCHANGED <<storeVars, ghostVars, arg, half, readers, wlock, compaction_writer,
                   readers_cache, gens_to_remove, granted, opened, seen, quiet,
                   racing, overlap>>
    /\ UNCHANGED sideVars
    /\ UNCHANGED dropVars

\* read_op_at_pos, line 230
GetClean(t) ==
    /\ pc[t] = "get_clean"
    /\ readers' = [readers EXCEPT ![half[t]] = clean_stale_handle(@, stale_gen)]
    /\ Goto(t, "get_read")
    /\ UNCHANGED <<storeVars, ghostVars, arg, cmdv, result, half, wlock,
                   compaction_writer, readers_cache, gens_to_remove, taskGhosts>>
    /\ UNCHANGED sideVars
    /\ UNCHANGED dropVars

\* read_op_at_pos, lines 232-251, and the match of get
GetRead(t) ==
    /\ pc[t] = "get_read"
    /\ LET r == ReadAt(files, readers[half[t]], cmdv[t])
       IN  /\ readers' = [readers EXCEPT ![half[t]] = r.cache]
           /\ result' = [result EXCEPT ![t] = GetResult(r.res)]
    /\ Goto(t, "get_send")
    /\ UNCHANGED <<storeVars, ghostVars, arg, cmdv, half, wlock,
                   compaction_writer, readers_cache, gens_to_remove, taskGhosts>>
    /\ UNCHANGED sideVars
    /\ UNCHANGED dropVars

\* a send that unwraps its result
SendResultUnwrap(alive) == IF alive THEN "sent" ELSE "panic"

\* sender.send(res) and the if around it (lines 125-127, 141-143,
\* 158-160): the result reaches the receiver, or the error is logged
SendResult(alive) == IF alive THEN "sent" ELSE "logged"

\* where the closure leaves the thread that ran it
ClosureEnd(outcome) == IF outcome = "panic" THEN "panicked" ELSE "idle"

\* the closure of task t sends its result and ends
Finish(t) ==
    /\ Goto(t, ClosureEnd(SendResult(rx[t])))
    /\ rx' = [rx EXCEPT ![t] = TRUE]

\* sender.send(res); the closure ends and drops its reader half
GetSend(t) ==
    /\ pc[t] = "get_send"
    /\ Finish(t)
    /\ arg' = [arg EXCEPT ![t] = NoArg]
    /\ cmdv' = [cmdv EXCEPT ![t] = NoCmd]
    /\ result' = [result EXCEPT ![t] = OkUnit]
    /\ half' = [half EXCEPT ![t] = 0]
    /\ readers' = [readers EXCEPT ![t] = EmptyCache]
    /\ seen' = [seen EXCEPT ![t] = {}]
    /\ capt' = [capt EXCEPT ![t] = OkNone]
    /\ quiet' = [quiet EXCEPT ![t] = TRUE]
    /\ racing' = [racing EXCEPT ![t] = FALSE]
    /\ UNCHANGED <<storeVars, ghostVars, wlock, compaction_writer, readers_cache,
                   gens_to_remove, granted, opened, overlap>>
    /\ UNCHANGED sideVars

\* a mutation enters the pool: the gets in flight are no longer alone
Disturb == quiet' = [t \in Tasks |-> IF pc[t] \in GetPcs THEN FALSE ELSE quiet[t]]

\* KvStore::set, lines 137-144
SpawnSet(t, key, val) ==
    /\ pc[t] = "idle"
    /\ nmut < MaxMutations
    /\ nmut' = nmut + 1
    /\ Goto(t, "set_lock")
    /\ arg' = [arg EXCEPT ![t] = Event("set", key, val)]
    /\ Disturb
    /\ UNCHANGED <<storeVars, reply, model, touched, everSet, trail, compacted, preView,
                   nopen, cmdv, result, half, readers, wlock, compaction_writer,
                   readers_cache, gens_to_remove, granted, opened, seen, capt,
                   racing, overlap>>
    /\ UNCHANGED sideVars
    /\ UNCHANGED dropVars

\* KvStore::remove, lines 153-161
SpawnRemove(t, key) ==
    /\ pc[t] = "idle"
    /\ nmut < MaxMutations
    /\ nmut' = nmut + 1
    /\ Goto(t, "rm_lock")
    /\ arg' = [arg EXCEPT ![t] = Event("remove", key, 0)]
    /\ Disturb
    /\ UNCHANGED <<storeVars, reply, model, touched, everSet, trail, compacted, preView,
                   nopen, cmdv, result, half, readers, wlock, compaction_writer,
                   readers_cache, gens_to_remove, granted, opened, seen, capt,
                   racing, overlap>>
    /\ UNCHANGED sideVars
    /\ UNCHANGED dropVars

\* write_half.lock().unwrap(), lines 140 and 157
Acquire(t) ==
    /\ pc[t] \in LockPcs
    /\ MutexFree(wlock)
    /\ wlock' = t
    /\ granted' = Append(granted, arg[t])
    /\ Goto(t, IF pc[t] = "set_lock" THEN "set_write" ELSE "rm_index")
    /\ overlap' = (overlap \/ \E u \in Tasks :
                                  /\ pc[t] = "set_lock" /\ pc[u] = "set_lock"
                                  /\ arg[u].key # arg[t].key)
    /\ UNCHANGED <<storeVars, ghostVars, arg, cmdv, result, half, readers,
                   compaction_writer, readers_cache, gens_to_remove, opened, seen, capt,
                   quiet, racing>>
    /\ UNCHANGED sideVars
    /\ UNCHANGED dropVars

\* the statement ends: the guard is dropped and the result is sent
Release(t) ==
    /\ wlock' = 0
    /\ Finish(t)
    /\ arg' = [arg EXCEPT ![t] = NoArg]
    /\ cmdv' = [cmdv EXCEPT ![t] = NoCmd]

\* KvStoreWriteHalf::set, lines 313-314
SetWrite(t) ==
    /\ pc[t] = "set_write"
    /\ LET w == write_ops(Cur, OpsSet(arg[t].key, arg[t].val))
       IN  /\ Install(w.st)
           /\ cmdv' = [cmdv EXCEPT ![t] = w.cmd]
    /\ Goto(t, "set_insert")
    /\ UNCHANGED <<ghostVars, arg, result, half, readers, wlock, compaction_writer,
                   readers_cache, gens_to_remove, taskGhosts>>
    /\ UNCHANGED sideVars
    /\ UNCHANGED dropVars

\* KvStoreWriteHalf::set, lines 316-326
SetInsertStep(t) ==
    /\ pc[t] = "set_insert"
    /\ LET s2 == SetInsert(Cur, arg[t].key, cmdv[t])
       IN  /\ Install(s2)
           /\ IF NeedsCompaction(s2)
              THEN Goto(t, "compact_copy") /\ UNCHANGED <<arg, cmdv, wlock, dropVars>>
              ELSE Release(t)
    /\ model' = [model EXCEPT ![arg[t].key] = arg[t].val]
    /\ touched' = touched \cup {arg[t].key}
    /\ everSet' = everSet \cup {arg[t].key}
    /\ Observe(arg[t].key, arg[t].val)
    /\ preView' = IF NeedsCompaction(SetInsert(Cur, arg[t].key, cmdv[t]))
                  THEN View(SetInsert(Cur, arg[t].key, cmdv[t])) ELSE preView
    /\ UNCHANGED <<reply, trail, compacted, nmut, nopen, result, half, readers,
                   compaction_writer, readers_cache, gens_to_remove, granted, opened,
                   capt, quiet, racing, overlap>>
    /\ UNCHANGED sideVars

\* KvStoreWriteHalf::remove, lines 330-333 and 342-344
RmIndex(t) ==
    /\ pc[t] = "rm_index"
    /\ IF arg[t].key \in DOMAIN database
       THEN /\ Install(RemoveIndex(Cur, arg[t].key))
            /\ Goto(t, "rm_write")
            /\ model' = [model EXCEPT ![arg[t].key] = 0]
            /\ touched' = touched \cup {arg[t].key}
            /\ Observe(arg[t].key, 0)
            /\ UNCHANGED <<arg, cmdv, wlock, dropVars>>
       ELSE /\ Release(t)
            /\ UNCHANGED <<storeVars, model, touched, seen>>
    /\ UNCHANGED <<reply, everSet, trail, compacted, preView, nmut, nopen, result, half,
                   readers, compaction_writer, readers_cache, gens_to_remove, granted,
                   opened, capt, quiet, racing, overlap>>
    /\ UNCHANGED sideVars

\* KvStoreWriteHalf::remove, lines 334-341
RmWrite(t) ==
    /\ pc[t] = "rm_write"
    /\ LET s2 == write_ops(Cur, OpsRm(arg[t].key)).st
       IN  /\ Install(s2)
           /\ IF NeedsCompaction(s2)
              THEN Goto(t, "compact_copy") /\ UNCHANGED <<arg, cmdv, wlock, dropVars>>
              ELSE Release(t)
           /\ preView' = IF NeedsCompaction(s2) THEN View(s2) ELSE preView
    /\ UNCHANGED <<reply, model, touched, everSet, trail, compacted, nmut, nopen,
                   result, half, readers, compaction_writer, readers_cache,
                   gens_to_remove, taskGhosts>>
    /\ UNCHANGED sideVars

\* compact, lines 348-380
CompactCopyStep(t) ==
    /\ pc[t] = "compact_copy"
    /\ LET c == CompactCopy(Cur)
       IN  /\ Install(c.st)
           /\ compaction_writer' = c.compaction_writer
           /\ readers_cache' = c.readers_cache
    /\ Goto(t, "compact_publish")
    /\ racing' = [u \in Tasks |-> racing[u] \/ pc[u] \in GetPcs]
    /\ UNCHANGED <<ghostVars, arg, cmdv, result, half, readers, wlock, gens_to_remove,
                   granted, opened, seen, capt, quiet, overlap>>
    /\ UNCHANGED sideVars
    /\ UNCHANGED dropVars

\* compact, lines 384-393
CompactPublish(t) ==
    /\ pc[t] = "compact_publish"
    /\ Install(PublishStale(Cur))
    /\ gens_to_remove' = GensToRemove(readers_cache, cur_gen)
    /\ Goto(t, "compact_remove")
    /\ UNCHANGED <<ghostVars, arg, cmdv, result, half, readers, wlock, compaction_writer,
                   readers_cache, taskGhosts>>
    /\ UNCHANGED sideVars
    /\ UNCHANGED dropVars

\* compact, lines 394-397: one fs::remove_file
CompactRemove(t) ==
    /\ pc[t] = "compact_remove"
    /\ gens_to_remove # {}
    /\ Install(RemoveFile(Cur, SetMin(gens_to_remove)))
    /\ gens_to_remove' = gens_to_remove \ {SetMin(gens_to_remove)}
    /\ UNCHANGED <<ghostVars, pc, arg, cmdv, result, half, readers, wlock,
                   compaction_writer, readers_cache, taskGhosts>>
    /\ UNCHANGED sideVars
    /\ UNCHANGED dropVars

\* compact, lines 399-402, and the return of set / remove
CompactFinishStep(t) ==
    /\ pc[t] = "compact_remove"
    /\ gens_to_remove = {}
    /\ Install(CompactFinish(Cur, compaction_writer))
    /\ compaction_writer' = NoWriter
    /\ readers_cache' = {}
    /\ Release(t)
    /\ UNCHANGED <<ghostVars, result, half, readers, gens_to_remove, taskGhosts>>
    /\ UNCHANGED sideVars

\* the directory a process that dies inside compact can leave behind.  In
\* the copy loop (lines 348-376): nothing yet, the compaction segment just
\* created, or the segment with the records of the first n locators; from
\* the flush on, the directory as it stands, some old segments deleted
CrashImages(t) ==
    IF pc[t] = "compact_copy"
    THEN {files} \cup
         {CopyLoop(CreateLog(files, cur_gen + 1), database, FirstKeys(database, n),
                   cur_gen + 1, 0, {}).files : n \in 0..Cardinality(DOMAIN database)}
    ELSE {files}

\* the process dies while task t runs compact, and KvStore::open runs on
\* what is left on disk; every task and every in-memory field is lost
Crash(t) ==
    /\ pc[t] \in CompactPcs
    /\ \E image \in CrashImages(t) :
          /\ Install(KvOpen(image))
          /\ opened' = KvOpen(image)
    /\ reply' = Call("crash", 0, 0, OkUnit)
    /\ touched' = {}
    /\ trail' = Push(trail, Event("crash", 0, 0))
    /\ pc' = [u \in Tasks |-> "idle"]
    /\ arg' = [u \in Tasks |-> NoArg]
    /\ cmdv' = [u \in Tasks |-> NoCmd]
    /\ result' = [u \in Tasks |-> OkUnit]
    /\ half' = [u \in Tasks |-> 0]
    /\ readers' = [h \in Halves |-> EmptyCache]
    /\ wlock' = 0
    /\ compaction_writer' = NoWriter
    /\ readers_cache' = {}
    /\ gens_to_remove' = {}
    /\ granted' = <<>>
    /\ seen' = [u \in Tasks |-> {}]
    /\ capt' = [u \in Tasks |-> OkNone]
    /\ quiet' = [u \in Tasks |-> TRUE]
    /\ racing' = [u \in Tasks |-> FALSE]
    /\ rx' = [u \in Tasks |-> TRUE]
    /\ UNCHANGED <<model, everSet, compacted, preView, nmut, nopen, overlap>>
    /\ UNCHANGED sideVars

NextTasks ==
    \/ \E t \in Tasks, key \in Keys : SpawnGet(t, key)
    \/ \E t \in Tasks : GetLookup(t)
    \/ \E t \in Tasks : GetClean(t)
    \/ \E t \in Tasks : GetRead(t)
    \/ \E t \in Tasks : GetSend(t)
    \/ \E t \in Tasks, key \in Keys, val \in Vals : SpawnSet(t, key, val)
    \/ \E t \in Tasks, key \in Keys : SpawnRemove(t, key)
    \/ \E t \in Tasks : Acquire(t)
    \/ \E t \in Tasks : SetWrite(t)
    \/ \E t \in Tasks : SetInsertStep(t)
    \/ \E t \in Tasks : RmIndex(t)
    \/ \E t \in Tasks : RmWrite(t)
    \/ \E t \in Tasks : CompactCopyStep(t)
    \/ \E t \in Tasks : CompactPublish(t)
    \/ \E t \in Tasks : CompactRemove(t)
    \/ \E t \in Tasks : CompactFinishStep(t)

NextConc ==
    \/ NextTasks
    \/ Reopen

SpecConc == Init /\ [][NextConc]_vars

\* the same tasks, with the process dying during a compaction
NextCrash ==
    \/ NextTasks
    \/ \E t \in Tasks : Crash(t)
    \/ Reopen

SpecCrash == Init /\ [][NextCrash]_vars

\* the caller drops the future of the call task t runs: receiver.await
\* (lines 130, 146, 163) is abandoned and the receiving end is dropped
DropFuture(t) ==
    /\ pc[t] # "idle"
    /\ rx[t]
    /\ rx' = [rx EXCEPT ![t] = FALSE]
    /\ UNCHANGED <<storeVars, ghostVars, taskVars, taskGhosts, sideVars>>

NextDrop ==
    \/ NextTasks
    \/ \E t \in Tasks : DropFuture(t)
    \/ Reopen

SpecDrop == Init /\ [][NextDrop]_vars

\* ------------------------------------------------- the facade's calls
notFac == <<ghostVars, taskVars, taskGhosts, dropVars, poolVars, srvVars, wireVars,
            dirVars>>

\* KvStore::get / set / remove up to the await: one channel, one closure,
\* one pool.spawn (lines 116-128, 137-144, 153-161)
FacadeCall(c, op) ==
    /\ call[c].st = "none"
    /\ \A d \in Calls : d < c => call[d].st # "none"
    /\ call' = [call EXCEPT ![c] = [st |-> "await", op |-> op, res |-> OkUnit]]
    /\ ftask' = [ftask EXCEPT ![c] = "queued"]
    /\ nspawn' = [nspawn EXCEPT ![c] = @ + 1]
    /\ UNCHANGED <<fres, floc, wmutex, dmutex, poison, storeVars, notFac>>

\* a worker of the pool takes the closure
TaskStart(c) ==
    /\ ftask[c] = "queued"
    /\ Cardinality({d \in Calls : OnWorker(ftask[d])}) < NumThreads
    /\ ftask' = [ftask EXCEPT ![c] = FirstPc(call[c].op.op)]
    /\ UNCHANGED <<call, fres, floc, nspawn, wmutex, dmutex, poison, storeVars, notFac>>

\* the closure unwinds: the guards it holds are dropped and poison their
\* mutexes, its locals are dropped, the sender among them
Unwinds(c) ==
    /\ ftask' = [ftask EXCEPT ![c] = "dropped"]
    /\ floc' = [floc EXCEPT ![c] = NoLocals]
    /\ wmutex' = IF wmutex = c THEN 0 ELSE wmutex
    /\ dmutex' = IF dmutex = c THEN 0 ELSE dmutex
    /\ poison' = poison \cup (IF wmutex = c THEN {"writer"} ELSE {})
                         \cup (IF dmutex = c THEN {"index"} ELSE {})

\* the closure reaches sender.send(res) and ends
Sends(c, res) ==
    /\ ftask' = [ftask EXCEPT ![c] = "sent"]
    /\ fres' = [fres EXCEPT ![c] = res]
    /\ floc' = [floc EXCEPT ![c] = NoLocals]

\* write_half.lock().unwrap() (lines 140, 157): the lock is granted, and
\* the unwrap panics when the mutex is poisoned
WriterLock(c) ==
    /\ ftask[c] \in WLockPcs
    /\ wmutex = 0
    /\ IF "writer" \in poison
       THEN Unwinds(c)
       ELSE /\ ftask' = [ftask EXCEPT ![c] = AfterLock(ftask[c])]
            /\ wmutex' = c
            /\ UNCHANGED <<floc, dmutex, poison>>
    /\ UNCHANGED <<call, fres, nspawn, storeVars, notFac>>

\* self.database.lock().unwrap() (lines 256, 317, 330, 359)
IndexLock(c) ==
    /\ ftask[c] \in DLockPcs
    /\ dmutex = 0
    /\ IF "index" \in poison
       THEN Unwinds(c)
       ELSE /\ ftask' = [ftask EXCEPT ![c] = AfterLock(ftask[c])]
            /\ dmutex' = c
            /\ UNCHANGED <<floc, wmutex, poison>>
    /\ UNCHANGED <<call, fres, nspawn, storeVars, notFac>>

\* KvStoreReadHalf::get, line 256: the locator is copied and the guard,
\* a temporary of the statement, is dropped
GetCopy(c) ==
    /\ ftask[c] = "get_copy"
    /\ dmutex' = 0
    /\ LET cmd == Lookup(database, call[c].op.key)
       IN  IF Found(cmd)
           THEN /\ ftask' = [ftask EXCEPT ![c] = "get_read"]
                /\ floc' = [floc EXCEPT ![c].cmd = cmd]
                /\ UNCHANGED fres
           ELSE Sends(c, OkNone)
    /\ UNCHANGED <<call, nspawn, wmutex, poison, storeVars, notFac>>

\* KvStoreReadHalf::get, lines 258-264, on the clone's own readers
GetReadStep(c, outcome) ==
    /\ ftask[c] = "get_read"
    /\ IF outcome = "panic"
       THEN Unwinds(c) /\ UNCHANGED fres
       ELSE /\ Sends(c, GetResult(read_op_at_pos(files, stale_gen,
                                                 CloneReaders(EmptyCache), floc[c].cmd).res))
            /\ UNCHANGED <<wmutex, dmutex, poison>>
    /\ UNCHANGED <<call, nspawn, storeVars, notFac>>

\* KvStoreWriteHalf::set, lines 313-314
SetWriteStep(c, outcome) ==
    /\ ftask[c] = "set_write"
    /\ IF outcome = "panic"
       THEN Unwinds(c) /\ UNCHANGED storeVars
       ELSE LET w == write_ops(Cur, OpsSet(call[c].op.key, call[c].op.val))
            IN  /\ Install(w.st)
                /\ floc' = [floc EXCEPT ![c].cmd = w.cmd]
                /\ ftask' = [ftask EXCEPT ![c] = "set_dlock"]
                /\ UNCHANGED <<wmutex, dmutex, poison>>
    /\ UNCHANGED <<call, fres, nspawn, notFac>>

\* the return of set / remove: compact first when the counter says so
\* (lines 322-326, 337-341); the writer guard is dropped with the statement
Returns(c, s2) ==
    IF NeedsCompaction(s2)
    THEN /\ ftask' = [ftask EXCEPT ![c] = "cmp_dlock"]
         /\ UNCHANGED <<fres, floc, wmutex>>
    ELSE Sends(c, OkUnit) /\ wmutex' = 0

\* KvStoreWriteHalf::set, lines 316-320
SetInsertLocked(c) ==
    /\ ftask[c] = "set_insert"
    /\ dmutex' = IndexGuardAfterInsert(c)
    /\ LET s2 == SetInsert(Cur, call[c].op.key, floc[c].cmd)
       IN  Install(s2) /\ Returns(c, s2)
    /\ UNCHANGED <<call, nspawn, poison, notFac>>

\* KvStoreWriteHalf::remove, lines 330-333 and 342-344
RmIndexLocked(c) ==
    /\ ftask[c] = "rm_index"
    /\ dmutex' = 0
    /\ IF call[c].op.key \in DOMAIN database
       THEN /\ Install(RemoveIndex(Cur, call[c].op.key))
            /\ ftask' = [ftask EXCEPT ![c] = "rm_write"]
            /\ UNCHANGED <<fres, floc, wmutex>>
       ELSE /\ Sends(c, ErrKeyNotFound)
            /\ wmutex' = 0
            /\ UNCHANGED storeVars
    /\ UNCHANGED <<call, nspawn, poison, notFac>>

\* KvStoreWriteHalf::remove, lines 334-341
RmWriteStep(c, outcome) ==
    /\ ftask[c] = "rm_write"
    /\ IF outcome = "panic"
       THEN Unwinds(c) /\ UNCHANGED <<fres, storeVars>>
       ELSE LET s2 == write_ops(Cur, OpsRm(call[c].op.key)).st
            IN  /\ Install(s2)
                /\ Returns(c, s2)
                /\ UNCHANGED <<dmutex, poison>>
    /\ UNCHANGED <<call, nspawn, notFac>>

\* compact, lines 348-380, under the index guard db, dropped at line 380
CompactCopyLocked(c, outcome) ==
    /\ ftask[c] = "cmp_copy"
    /\ IF outcome = "panic"
       THEN Unwinds(c) /\ UNCHANGED storeVars
       ELSE LET r == CompactCopy(Cur)
            IN  /\ Install(r.st)
                /\ floc' = [floc EXCEPT ![c].cw = r.compaction_writer,
                                         ![c].rc = r.readers_cache]
                /\ ftask' = [ftask EXCEPT ![c] = "cmp_finish"]
                /\ dmutex' = 0
                /\ UNCHANGED <<wmutex, poison>>
    /\ UNCHANGED <<call, fres, nspawn, notFac>>

\* compact, lines 384-402, and the return of set / remove
CompactFinishLocked(c) ==
    /\ ftask[c] = "cmp_finish"
    /\ Install(CompactFinish(
                   RemoveFiles(PublishStale(Cur), GensToRemove(floc[c].rc, cur_gen)),
                   floc[c].cw))
    /\ Sends(c, OkUnit)
    /\ wmutex' = 0
    /\ UNCHANGED <<call, nspawn, dmutex, poison, notFac>>

\* receiver.await returns to the caller
Complete(c) ==
    /\ call[c].st = "await"
    /\ Resolved(ftask[c])
    /\ call' = [call EXCEPT ![c] = [@ EXCEPT !.st = "done",
                                              !.res = Received(ftask[c], fres[c])]]
    /\ UNCHANGED <<ftask, fres, floc, nspawn, wmutex, dmutex, poison, storeVars, notFac>>

Outcomes == {"return", "panic"}

\* a step of the closure of call c
TaskStep(c) ==
    \/ TaskStart(c)
    \/ WriterLock(c)
    \/ IndexLock(c)
    \/ GetCopy(c)
    \/ \E outcome \in Outcomes : GetReadStep(c, outcome)
    \/ \E outcome \in Outcomes : SetWriteStep(c, outcome)
    \/ SetInsertLocked(c)
    \/ RmIndexLocked(c)
    \/ \E outcome \in Outcomes : RmWriteStep(c, outcome)
    \/ \E outcome \in Outcomes : CompactCopyLocked(c, outcome)
    \/ CompactFinishLocked(c)

NextFacade ==
    \/ \E c \in Calls, op \in Ops3 : FacadeCall(c, op)
    \/ \E c \in Calls : TaskStart(c)
    \/ \E c \in Calls : WriterLock(c)
    \/ \E c \in Calls : IndexLock(c)
    \/ \E c \in Calls : GetCopy(c)
    \/ \E c \in Calls, outcome \in Outcomes : GetReadStep(c, outcome)
    \/ \E c \in Calls, outcome \in Outcomes : SetWriteStep(c, outcome)
    \/ \E c \in Calls : SetInsertLocked(c)
    \/ \E c \in Calls : RmIndexLocked(c)
    \/ \E c \in Calls, outcome \in Outcomes : RmWriteStep(c, outcome)
    \/ \E c \in Calls, outcome \in Outcomes : CompactCopyLocked(c, outcome)
    \/ \E c \in Calls : CompactFinishLocked(c)
    \/ \E c \in Calls : Complete(c)

SpecFacade == Init /\ [][NextFacade]_vars

\* the workers of the pool are threads of their own and the runtime polls a
\* future whose channel has resolved: as long as a closure can take a step
\* or an await can return, one of them does
SpecFacadeLive == SpecFacade /\ WF_vars(NextFacade)

\* ------------------------------------------------ listing a directory
notDir == <<storeVars, ghostVars, taskVars, taskGhosts, dropVars, poolVars, srvVars,
            wireVars, facVars>>

\* something creates an entry in the root
CreateEntry(name, kind) ==
    /\ Cardinality(dir) < MaxEntries
    /\ \A e \in dir : e.name # name
    /\ dir' = dir \cup {[name |-> name, kind |-> kind]}
    /\ listed' = FALSE
    /\ UNCHANGED <<gen_list, notDir>>

\* sorted_gen_list(root)
ListGens ==
    /\ ~listed
    /\ gen_list' = sorted_gen_list(dir)
    /\ listed' = TRUE
    /\ UNCHANGED <<dir, notDir>>

NextDir ==
    \/ \E name \in Names, kind \in Kinds : CreateEntry(name, kind)
    \/ ListGens

SpecDir == Init /\ [][NextDir]_vars

\* ------------------------------------------ the pool: threads and drop
notPool == <<storeVars, ghostVars, taskVars, taskGhosts, dropVars, srvVars, wireVars, moreVars>>

\* SharedQueueThreadPool::spawn
PoolSpawn ==
    /\ pool = "live"
    /\ nsub < MaxTasks
    /\ nsub' = nsub + 1
    /\ queue' = Append(queue, NewTask(nsub + 1))
    /\ afterPanic' = IF npanic > 0 THEN afterPanic \cup {nsub + 1} ELSE afterPanic
    /\ UNCHANGED <<rlock, worker, current, pool, nterm, njoin, started, finished, npanic>>
    /\ UNCHANGED notPool

\* Worker::new, line 39: receiver.lock().unwrap()
WorkerLock(w) ==
    /\ worker[w] = "lock"
    /\ rlock = 0
    /\ rlock' = w
    /\ worker' = [worker EXCEPT ![w] = "recv"]
    /\ UNCHANGED <<queue, current, pool, nterm, njoin, nsub, started, finished, npanic,
                   afterPanic>>
    /\ UNCHANGED notPool

\* Worker::new, lines 39-48: recv() returns the oldest message, the guard
\* is dropped, and the match starts the task or leaves the loop
WorkerRecv(w) ==
    /\ worker[w] = "recv"
    /\ rlock = w
    /\ queue # <<>>
    /\ queue' = Tail(queue)
    /\ rlock' = 0
    /\ IF Head(queue).type = "NewTask"
       THEN /\ worker' = [worker EXCEPT ![w] = "run"]
            /\ current' = [current EXCEPT ![w] = Head(queue).id]
            /\ started' = [started EXCEPT ![Head(queue).id] = @ + 1]
       ELSE /\ worker' = [worker EXCEPT ![w] = "exited"]
            /\ UNCHANGED <<current, started>>
    /\ UNCHANGED <<pool, nterm, njoin, nsub, finished, npanic, afterPanic>>
    /\ UNCHANGED notPool

\* Worker::new, lines 42-45: the task returns or panics inside call_from_box
TaskEnd(w, outcome) ==
    /\ worker[w] = "run"
    /\ worker' = [worker EXCEPT ![w] = WorkerLoop(call_from_box(outcome))]
    /\ current' = [current EXCEPT ![w] = 0]
    /\ finished' = [finished EXCEPT ![current[w]] = @ + 1]
    /\ npanic' = IF outcome = "panic" THEN npanic + 1 ELSE npanic
    /\ UNCHANGED <<queue, rlock, pool, nterm, njoin, nsub, started, afterPanic>>
    /\ UNCHANGED notPool

\* drop(pool) begins
PoolDrop ==
    /\ pool = "live"
    /\ pool' = "terminating"
    /\ UNCHANGED <<queue, rlock, worker, current, nterm, njoin, nsub, started, finished,
                   npanic, afterPanic>>
    /\ UNCHANGED notPool

\* impl Drop, lines 126-128: one Terminate per worker
PoolSendTerminate ==
    /\ pool = "terminating"
    /\ IF nterm < NumThreads
       THEN /\ queue' = Append(queue, Terminate)
            /\ nterm' = nterm + 1
            /\ UNCHANGED pool
       ELSE /\ pool' = "joining"
            /\ UNCHANGED <<queue, nterm>>
    /\ UNCHANGED <<rlock, worker, current, njoin, nsub, started, finished, npanic,
                   afterPanic>>
    /\ UNCHANGED notPool

\* impl Drop, lines 131-136: join the workers in order, then return
PoolJoin ==
    /\ pool = "joining"
    /\ IF njoin < NumThreads
       THEN /\ JoinReturns(worker[njoin + 1])
            /\ njoin' = njoin + 1
            /\ UNCHANGED pool
       ELSE /\ pool' = "dropped"
            /\ UNCHANGED njoin
    /\ UNCHANGED <<queue, rlock, worker, current, nterm, nsub, started, finished, npanic,
                   afterPanic>>
    /\ UNCHANGED notPool

NextPool ==
    \/ PoolSpawn
    \/ \E w \in Workers : WorkerLock(w)
    \/ \E w \in Workers : WorkerRecv(w)
    \/ \E w \in Workers, outcome \in {"return", "panic"} : TaskEnd(w, outcome)
    \/ PoolDrop
    \/ PoolSendTerminate
    \/ PoolJoin

SpecPool == Init /\ [][NextPool]_vars

\* ------------------------------------------------------------ the server
notSrv == <<ghostVars, taskVars, taskGhosts, dropVars, poolVars, wireVars, moreVars>>

SetConn(c, f) == conn' = [conn EXCEPT ![c] = f]

\* KvClient::new: the next client connects and waits in the backlog
ClientConnect(c) ==
    /\ conn[c].st = "none"
    /\ \A d \in Conns : d < c => conn[d].st # "none"
    /\ srv # "exited"
    /\ SetConn(c, [conn[c] EXCEPT !.st = "pending"])
    /\ UNCHANGED <<storeVars, flag, srv, lateAccepts>>
    /\ UNCHANGED notSrv

\* KvClient::send: write one command frame; the client writes its next
\* frame only after it has read the response to the one before
ClientSend(c, cmd) ==
    /\ conn[c].st # "none"
    /\ conn[c].nsent < MaxFrames
    /\ Len(conn[c].outbound) = conn[c].nsent
    /\ SetConn(c, [conn[c] EXCEPT !.inbound = Append(@, cmd), !.nsent = @ + 1])
    /\ UNCHANGED <<storeVars, flag, srv, lateAccepts>>
    /\ UNCHANGED notSrv

\* the operator sets the termination flag
SetFlag ==
    /\ ~flag
    /\ flag' = TRUE
    /\ UNCHANGED <<storeVars, srv, conn, lateAccepts>>
    /\ UNCHANGED notSrv

\* accept returns the oldest waiting connection, which is handed to the pool
SrvAccept ==
    /\ srv = "accept"
    /\ \E c \in Conns :
          /\ conn[c].st = "pending"
          /\ \A d \in Conns : d < c => conn[d].st # "pending"
          /\ SetConn(c, [conn[c] EXCEPT !.st = "Accepted"])
    /\ srv' = "check"
    /\ lateAccepts' = IF flag THEN lateAccepts + 1 ELSE lateAccepts
    /\ UNCHANGED <<storeVars, flag>>
    /\ UNCHANGED notSrv

\* the flag is checked after the accept: the loop exits or accepts again
SrvCheck ==
    /\ srv = "check"
    /\ srv' = AfterCheck(flag)
    /\ UNCHANGED <<storeVars, flag, conn, lateAccepts>>
    /\ UNCHANGED notSrv

\* Reading Length, Reading Body, Decoded: one command frame is read
ConnRead(c) ==
    /\ conn[c].st = "Accepted"
    /\ conn[c].inbound # <<>>
    /\ SetConn(c, [conn[c] EXCEPT !.st = "Decoded", !.cmd = Head(conn[c].inbound),
                                  !.inbound = Tail(@)])
    /\ UNCHANGED <<storeVars, flag, srv, lateAccepts>>
    /\ UNCHANGED notSrv

\* the result of the engine's call for a command, and the store after it
Dispatch(s, cmd) ==
    IF cmd.op = "get" THEN [st |-> s, res |-> KvGet(s, cmd.key)]
    ELSE IF cmd.op = "set"
    THEN [st |-> WriteHalfSet(s, cmd.key, cmd.val).st, res |-> OkUnit]
    ELSE [st |-> WriteHalfRemove(s, cmd.key).st, res |-> WriteHalfRemove(s, cmd.key).res]

\* Dispatched: the command goes through the engine facade, awaited
ConnDispatch(c) ==
    /\ conn[c].st = "Decoded"
    /\ Install(Dispatch(Cur, conn[c].cmd).st)
    /\ SetConn(c, [conn[c] EXCEPT !.st = "Dispatched", !.nproc = @ + 1,
                                  !.seen = KvGet(Cur, conn[c].cmd.key),
                                  !.res = Dispatch(Cur, conn[c].cmd).res])
    /\ UNCHANGED <<flag, srv, lateAccepts>>
    /\ UNCHANGED notSrv

\* Responded: one response frame is written and flushed
ConnRespond(c) ==
    /\ conn[c].st = "Dispatched"
    /\ SetConn(c, [conn[c] EXCEPT !.st = "Responded", !.resp = Respond(conn[c].res),
                                  !.outbound = Append(@, Respond(conn[c].res))])
    /\ UNCHANGED <<storeVars, flag, srv, lateAccepts>>
    /\ UNCHANGED notSrv

\* Closed
ConnClose(c) ==
    /\ conn[c].st = "Responded"
    /\ SetConn(c, [conn[c] EXCEPT !.st = AfterResponse(conn[c].st)])
    /\ UNCHANGED <<storeVars, flag, srv, lateAccepts>>
    /\ UNCHANGED notSrv

NextServer ==
    \/ \E c \in Conns : ClientConnect(c)
    \/ \E c \in Conns, cmd \in Commands : ClientSend(c, cmd)
    \/ SetFlag
    \/ SrvAccept
    \/ SrvCheck
    \/ \E c \in Conns : ConnRead(c)
    \/ \E c \in Conns : ConnDispatch(c)
    \/ \E c \in Conns : ConnRespond(c)
    \/ \E c \in Conns : ConnClose(c)

SpecServer == Init /\ [][NextServer]_vars

\* run() is a thread of its own: an accept that can return does return, and
\* the check that follows it is taken
SpecServerLive == SpecServer /\ WF_vars(SrvAccept) /\ WF_vars(SrvCheck)


\* ------------------------------------------------------- wire: the actions
notWire == <<storeVars, ghostVars, taskVars, taskGhosts, dropVars, poolVars, srvVars, moreVars>>

\* the bytes that follow a frame on the stream: nothing, or the next frame
Tails == {<<>>, protocol_write(WResponse(TRUE, <<>>))}

\* a peer writes one message, and what follows it, to the stream
WireWrite(m, tail) ==
    /\ wpc = "new"
    /\ wmsg' = m
    /\ wire' = protocol_write(m) \o tail
    /\ wpc' = "written"
    /\ UNCHANGED wres
    /\ UNCHANGED notWire

\* the other peer reads one frame; the stream's first read returns `first` bytes
WireRead(first) ==
    /\ wpc = "written"
    /\ wres' = protocol_read(TypeOf(wmsg), wire, first)
    /\ wpc' = "read"
    /\ UNCHANGED <<wmsg, wire>>
    /\ UNCHANGED notWire

NextWire ==
    \/ \E m \in Messages, tail \in Tails : WireWrite(m, tail)
    \/ \E first \in 1..MaxFirst : WireRead(first)

SpecWire == Init /\ [][NextWire]_vars

\* ----------------------------------------------------------------- claims
\* C1: in every state S a sequence of set, remove, reopen (compactions
\* included) produces, a fresh store opened on the same directory returns
\* for every key what get returns in S.
C1_ReopenSameView == View(KvOpen(files)) = View(Cur)

\* C2: within one open store, get(k) is Some(v) when the last successful
\* mutation of k was set(k, v), and None (not an error) when k was never
\* set or its last successful mutation was remove(k).
C2_GetMatchesReference ==
    /\ \A k \in Keys :
          (k \in touched \/ k \notin everSet) => KvGet(Cur, k) = Expected(model[k])
    /\ (reply.op = "get" /\ (reply.key \in touched \/ reply.key \notin everSet))
          => reply.res = Expected(model[reply.key])

\* a get answered None for a key that was set and then removed in this
\* session, while another key of the session holds a value
C2_Witness ==
    /\ reply.op = "get"
    /\ reply.key \in touched
    /\ reply.key \in everSet
    /\ model[reply.key] = 0
    /\ reply.res = OkNone
    /\ \E k \in touched : model[k] # 0 /\ KvGet(Cur, k) = OkSome(model[k])

\* the last two mutations were set(k, v1); set(k, v2), then maybe a reopen
Overwrote(k, v2, reopened) ==
    LET n == Len(trail)
        m == IF reopened THEN n - 1 ELSE n
    IN  /\ m >= 2
        /\ reopened => trail[n].op = "open"
        /\ trail[m] = Event("set", k, v2)
        /\ trail[m - 1].op = "set"
        /\ trail[m - 1].key = k

\* C3: after set(k, v1); set(k, v2), get(k) returns Some(v2), in the same
\* session and after the store is dropped and reopened.
C3_LastWriteWins ==
    \A k \in Keys, v2 \in Vals, reopened \in BOOLEAN :
        Overwrote(k, v2, reopened) =>
            /\ KvGet(Cur, k) = OkSome(v2)
            /\ (reply.op = "get" /\ reply.key = k) => reply.res = OkSome(v2)

\* set(k, v1); set(k, v2) with v1 # v2, reopen, and a get(k) that answered
C3_Witness ==
    \E k \in Keys, v2 \in Vals :
        /\ Overwrote(k, v2, TRUE)
        /\ trail[Len(trail) - 2].val # v2
        /\ reply = Call("get", k, 0, OkSome(v2))

\* C4: remove(k) of a key that is not in the index fails with KeyNotFound,
\* appends nothing and leaves the index, the uncompacted counter, the
\* current generation and the segment files as they were.
C4_RemoveAbsent ==
    [][\A k \in Keys :
          (reply'.op = "remove" /\ reply'.key = k /\ k \notin DOMAIN database)
             => /\ reply'.res = ErrKeyNotFound
                /\ UNCHANGED storeVars]_vars

\* a remove of a key that was set and removed before answered KeyNotFound
C4_Witness ==
    \E k \in Keys :
        /\ reply = Call("remove", k, 0, ErrKeyNotFound)
        /\ k \in everSet
        /\ k \notin DOMAIN database
        /\ \E g \in DOMAIN files : files[g] # <<>>

\* C5: a completed compaction preserves the contents: get after it equals
\* get before it for every key, and a store reopened on the directory
\* after the compaction returns the same values.
C5_CompactionPreserves ==
    compacted => /\ View(Cur) = preView
                 /\ View(KvOpen(files)) = preView

\* the calls of a session run one after another, in the given order
RECURSIVE SeqRun(_, _)
SeqRun(s, calls) ==
    IF calls = <<>> THEN s
    ELSE LET c == Head(calls)
         IN  SeqRun(IF c.op = "set" THEN WriteHalfSet(s, c.key, c.val).st
                    ELSE WriteHalfRemove(s, c.key).st,
                    Tail(calls))

\* the get of task t has its result
GetDone(t) == pc[t] = "get_send"

\* the locator task t copied is gone from the index and its segment deleted
LocatorRetired(t) ==
    /\ cmdv[t].gen \notin DOMAIN files
    /\ Lookup(database, arg[t].key) # cmdv[t]

\* C6 as stated: a get that runs concurrently with a compaction never fails
\* and never returns a wrong value, and no get resolves a locator into a
\* segment that has been deleted.
C6_GetNeverFails ==
    \A t \in Tasks :
        /\ (GetDone(t) /\ racing[t]) => result[t] = capt[t]
        /\ pc[t] \in {"get_clean", "get_read"} => cmdv[t].gen \in DOMAIN files

\* C6 amended: a get that runs concurrently with a compaction never returns
\* a wrong value: it returns the value its key had when it copied the
\* locator, or it fails with the I/O error of File::open because the
\* segment of that locator was deleted after the compaction retargeted the
\* index and published the watermark.
C6_GetRightOrIoError ==
    \A t \in Tasks :
        (GetDone(t) /\ racing[t]) =>
            \/ result[t] = capt[t]
            \/ /\ result[t] = ErrIo
               /\ cmdv[t].gen <= stale_gen
               /\ LocatorRetired(t)

\* a get read the old segment's bytes while the compaction that had
\* already retargeted its key was still deleting segments
C6_Witness ==
    \E t \in Tasks :
        /\ GetDone(t) /\ racing[t]
        /\ result[t].kind = "Some" /\ result[t] = capt[t]
        /\ cmdv[t].gen < cur_gen
        /\ arg[t].key \in DOMAIN database /\ database[arg[t].key].gen = cur_gen
        /\ \E u \in Tasks : pc[u] = "compact_remove"

\* the get of task t overlapped a set that replaced one value by another
Overwritten(t) ==
    /\ Cardinality(seen[t]) >= 2
    /\ \A r \in seen[t] : r.kind = "Some"

\* the locator task t holds names a whole Set record of its key, with a
\* value the key held while the get ran
LocatorWhole(t) ==
    (pc[t] \in {"get_clean", "get_read", "get_send"} /\ Found(cmdv[t])
        /\ cmdv[t].gen \in DOMAIN files) =>
        LET rec == DecodeAt(files[cmdv[t].gen], 1, 0, cmdv[t].pos, cmdv[t].len)
        IN  /\ IsOps(rec)
            /\ rec.type = "Set"
            /\ rec.key = arg[t].key
            /\ OkSome(rec.val) \in seen[t]

\* C7 as stated: a get(k) concurrent with a set(k, v2) that overwrites v1
\* returns Some(v1) or Some(v2), and the locator it read is never torn.
C7_GetOldOrNew ==
    \A t \in Tasks :
        /\ (GetDone(t) /\ Overwritten(t)) => result[t] \in seen[t]
        /\ LocatorWhole(t)

\* C7 amended: such a get returns Some(v1) or Some(v2), or fails with the
\* I/O error of File::open when the set ran a compaction that retargeted
\* the key and deleted the segment of the locator the get had copied; the
\* locator it copied is a whole one (the pre-set one, the post-set one or
\* the one the compaction retargeted it to), never a mixture.
C7_GetOldNewOrIoError ==
    \A t \in Tasks :
        /\ (GetDone(t) /\ Overwritten(t)) =>
               \/ result[t] \in seen[t]
               \/ result[t] = ErrIo /\ LocatorRetired(t)
        /\ LocatorWhole(t)

\* a get returned the value the set had already replaced
C7_Witness ==
    \E t \in Tasks :
        /\ GetDone(t) /\ Overwritten(t)
        /\ result[t].kind = "Some"
        /\ result[t] # Expected(model[arg[t].key])
        /\ result[t] \in seen[t]

AllIdle == \A t \in Tasks : pc[t] = "idle"

\* C8: once concurrent sets (of distinct keys, through clones of one
\* store) have all completed, a store opened on the directory returns the
\* value of every key whose last set it was.
C8_NoLostUpdate ==
    AllIdle => \A k \in Keys :
                  model[k] # 0 => KvGet(KvOpen(files), k) = OkSome(model[k])

\* two sets of distinct keys contended for the mutex, both completed, the
\* store was reopened and serves both values
C8_Witness ==
    /\ overlap /\ AllIdle
    /\ nopen > 1 /\ granted = <<>>
    /\ \A k \in Keys : model[k] # 0 /\ KvGet(Cur, k) = OkSome(model[k])

\* C9: at most one set, remove or compaction runs at a time, and whenever
\* the mutex is free the directory (the order of the records in the log),
\* the index and the writer's fields are those of running the session's
\* mutations one after another in the order the mutex was granted.
C9_MutexLinearizes ==
    /\ \A t \in Tasks : pc[t] \in CritPcs => wlock = t
    /\ Cardinality({t \in Tasks : pc[t] \in CritPcs}) <= 1
    /\ wlock = 0 => Cur = SeqRun(opened, granted)

\* three mutations went through the mutex, two of them contended for it,
\* and one of them compacted
C9_Witness ==
    /\ wlock = 0 /\ AllIdle
    /\ Len(granted) = MaxMutations
    /\ overlap
    /\ cur_gen > opened.cur_gen

\* C10: the reader half cloned for a get starts with an empty handle cache
\* of its own, so gets in flight never share a handle or its seek
\* position, and a get with no mutation in flight returns the value
\* stored for its key.
C10_PrivateReaders ==
    /\ \A t \in Tasks : pc[t] = "get_lookup" => readers[half[t]] = EmptyCache
    /\ \A t \in Tasks : pc[t] \in GetPcs => half[t] # 0
    /\ \A t, u \in Tasks : (t # u /\ pc[t] \in GetPcs /\ pc[u] \in GetPcs) => half[t] # half[u]
    /\ \A t \in Tasks : (GetDone(t) /\ quiet[t]) => result[t] = Expected(model[arg[t].key])

\* two gets of different keys have each opened the same segment and hold
\* handles at different offsets
C10_Witness ==
    \E t, u \in Tasks, g \in DOMAIN files :
        /\ t # u /\ GetDone(t) /\ GetDone(u) /\ quiet[t] /\ quiet[u]
        /\ g \in DOMAIN readers[half[t]] /\ g \in DOMAIN readers[half[u]]
        /\ readers[half[t]][g].pos # readers[half[u]][g].pos
        /\ result[t].kind = "Some" /\ result[u].kind = "Some"

\* C11: if the process dies at any step of a compaction (the compaction
\* segment created, any prefix of the live records copied, the watermark
\* published, any subset of the old segments deleted), the store reopened
\* on the directory returns for every key what get returned before the
\* compaction started.
C11_CrashPreserves ==
    (reply.op = "crash" /\ touched = {}) => View(Cur) = preView

\* every locator of the index names a whole record of the current
\* generation's segment, as it is on disk
AllRetargeted ==
    \A k \in DOMAIN database :
        /\ database[k].gen = cur_gen
        /\ cur_gen \in DOMAIN files
        /\ IsOps(DecodeAt(files[cur_gen], 1, 0, database[k].pos, database[k].len))

\* C19: compaction retargets every live locator to the compaction segment
\* and flushes it, then publishes the stale-generation watermark, and only
\* then deletes old segment files: the watermark moves only when every
\* locator is retargeted and no file has been deleted yet, and a file is
\* deleted only when every locator is retargeted and the watermark is
\* published.
C19_CompactionOrder ==
    [][/\ (stale_gen' > stale_gen) =>
              /\ AllRetargeted
              /\ stale_gen' = cur_gen - 1
              /\ files' = files
              /\ readers_cache \subseteq DOMAIN files
       /\ (\E g \in DOMAIN files : g \notin DOMAIN files') =>
              /\ AllRetargeted
              /\ stale_gen = cur_gen - 1
              /\ database' = database]_vars

\* a compaction has deleted the segments it copied from, the index holds
\* retargeted locators and the watermark is published
C19_Witness ==
    \E t \in Tasks :
        /\ pc[t] = "compact_remove"
        /\ gens_to_remove = {}
        /\ readers_cache # {}
        /\ readers_cache \cap DOMAIN files = {}
        /\ database # EmptyMap
        /\ AllRetargeted
        /\ stale_gen = cur_gen - 1

\* C20: when a compaction completes, every segment file of a generation
\* below the compaction generation has been deleted: the compaction
\* segment is the only file left in the directory.
C20_OnlyCompactionSegment ==
    compacted => DOMAIN files = {cur_gen}

\* C12: every task submitted to the shared-queue pool before it is dropped
\* is run exactly once, and drop returns only after all those tasks have
\* ended and every worker thread has left its loop.
C12_DropRunsAll ==
    /\ \A i \in TaskIds : started[i] <= 1 /\ finished[i] <= started[i]
    /\ pool = "dropped" =>
          /\ \A i \in 1..nsub : started[i] = 1 /\ finished[i] = 1
          /\ \A w \in Workers : worker[w] = "exited"
          /\ queue = <<>>

\* the pool was dropped after MaxTasks tasks, one of which panicked
C12_Witness ==
    /\ pool = "dropped"
    /\ nsub = MaxTasks
    /\ npanic = 1
    /\ \A i \in TaskIds : finished[i] = 1

\* C13: a panicking task never takes a worker away: no worker thread is
\* ended by a panic, until drop sends Terminate all capacity workers are
\* in their loop, and the tasks submitted after a panic are run as well.
C13_PanicKeepsCapacity ==
    /\ \A w \in Workers : worker[w] # "dead"
    /\ nterm = 0 =>
          Cardinality({w \in Workers : worker[w] \in {"lock", "recv", "run"}}) = NumThreads
    /\ \A i \in TaskIds : finished[i] = 1 => started[i] = 1
    /\ pool = "dropped" => \A i \in afterPanic : finished[i] = 1

\* two tasks panicked, a task submitted after a panic ran to its end, and
\* every worker is back at the queue of the live pool
C13_Witness ==
    /\ pool = "live"
    /\ npanic >= 2
    /\ \E i \in afterPanic : finished[i] = 1
    /\ \A w \in Workers : worker[w] \in {"lock", "recv"}

\* the step ends the closure of dropped task t (and is not a crash)
EndsDropped(t) ==
    /\ ~rx[t]
    /\ pc[t] # "idle"
    /\ pc'[t] \in {"idle", "panicked"}
    /\ opened' = opened

\* C14: when the caller has dropped the future of a get, set or remove
\* whose task was submitted, the task still runs to its end: a set or
\* remove was granted the mutex and leaves the log and the index as the
\* mutations run one after another leave them, a get has read its
\* result; the closure neither panics nor stops short, and only the
\* result goes nowhere.
C14_DroppedFutureRuns ==
    [][\A t \in Tasks :
          /\ pc'[t] # "panicked"
          /\ EndsDropped(t) =>
                /\ pc'[t] = "idle"
                /\ reply' = reply
                /\ arg[t].op = "get" => pc[t] = "get_send"
                /\ arg[t].op \in {"set", "remove"} =>
                      /\ wlock = t /\ wlock' = 0
                      /\ granted # <<>>
                      /\ granted[Len(granted)] = arg[t]
                      /\ Cur' = SeqRun(opened, granted)]_vars

\* a set whose future was dropped has written its record, swapped the
\* locator and is now compacting, while the store serves its value
C14_Witness ==
    \E t \in Tasks :
        /\ ~rx[t]
        /\ arg[t].op = "set"
        /\ pc[t] = "compact_remove"
        /\ KvGet(Cur, arg[t].key) = OkSome(arg[t].val)
        /\ \E u \in Tasks : u # t /\ pc[u] \in LockPcs

\* C15: the response of an answered connection is success with the value's
\* text for a Get that found the key, success with an empty message for a Get
\* that did not and for a Set or a Remove that succeeded, and failure with
\* the error's text otherwise; Remove of an absent key answers
\* failure "Key not found"
Answered(c) == conn[c].st \in {"Responded", "Closed"}

C15_ResponseMapping ==
    \A c \in Conns : Answered(c) =>
        LET kind == conn[c].cmd.op
            before == conn[c].seen
            resp == conn[c].resp
        IN /\ (kind = "get" /\ before.kind = "Some") =>
                  resp = [success |-> TRUE, message |-> ToString(before.val)]
           /\ (kind = "get" /\ before.kind = "None") =>
                  resp = [success |-> TRUE, message |-> ""]
           /\ kind = "set" => resp = [success |-> TRUE, message |-> ""]
           /\ (kind = "remove" /\ before.kind = "Some") =>
                  resp = [success |-> TRUE, message |-> ""]
           /\ (kind = "remove" /\ before.kind = "None") =>
                  resp = [success |-> FALSE, message |-> "Key not found"]
           /\ conn[c].res.kind \notin {"Ok", "None", "Some"} =>
                  (~resp.success /\ resp.message \in {"Key not found", "Io Error",
                      "Unexpected Command Type for key", "Json parsing error",
                      "ThreadPool thread Panicked", "Unknwon Error"})
           /\ resp = conn[c].outbound[Len(conn[c].outbound)]

C15_Witness ==
    \E c, d \in Conns :
        /\ Answered(c) /\ conn[c].cmd.op = "set" /\ conn[c].resp = Success("")
        /\ Answered(d) /\ conn[d].cmd.op = "get" /\ conn[d].seen.kind = "Some"
        /\ conn[d].resp = Success(ValText(conn[c].cmd.val))

\* C16: a connection carries one command frame and one response frame: the
\* client writes at most one command on it, and the server processes at most
\* one command and writes at most one response on it
C16_OneFramePerConnection ==
    \A c \in Conns :
        /\ conn[c].nsent <= 1
        /\ conn[c].nproc <= 1
        /\ Len(conn[c].outbound) <= 1

\* C17: the accept loop exits only at the check that follows an accept, with
\* the flag set; at most one connection is accepted after the flag was set,
\* and after that accept the loop never goes back to accept; once the flag is
\* set and a connection is waiting, run() returns
C17_ExitAtCheck == (srv' = "exited" /\ srv # "exited") => (srv = "check" /\ flag)

C18_FrameRoundTrip ==
    wpc = "read" =>
        /\ wres.ok
        /\ wres.val = wmsg
        /\ wres.consumed = Len(protocol_write(wmsg))

\* C21: a compaction's copy leaves every locator in the compaction generation
\* with its length unchanged, the copies tiling the segment from offset 0;
\* when the compaction completes the counter is zero and the writer stands
\* at the end of the copies in the compaction segment
RECURSIVE SumLen(_, _)
SumLen(db, keys) ==
    IF keys = {} THEN 0
    ELSE LET k == CHOOSE x \in keys : TRUE
         IN  db[k].len + SumLen(db, keys \ {k})

Contiguous(db, gen) ==
    /\ \A k \in DOMAIN db : db[k].gen = gen /\ db[k].len > 0
    /\ {db[k].pos : k \in DOMAIN db} \cup {SumLen(db, DOMAIN db)}
           = {0} \cup {db[k].pos + db[k].len : k \in DOMAIN db}

CopyDone(t) == pc[t] = "compact_copy" /\ pc'[t] = "compact_publish"
CompactionDone(t) == pc[t] = "compact_remove" /\ pc'[t] = "idle"

C21_Step ==
    \A t \in Tasks :
        /\ CopyDone(t) =>
              /\ cur_gen' = cur_gen + 1
              /\ DOMAIN database' = DOMAIN database
              /\ \A k \in DOMAIN database : database'[k].len = database[k].len
              /\ Contiguous(database', cur_gen')
        /\ CompactionDone(t) =>
              /\ uncompacted' = 0
              /\ writer' = [gen |-> cur_gen', pos |-> SumLen(database', DOMAIN database')]
              /\ Contiguous(database', cur_gen')
              /\ cur_gen' \in DOMAIN files'

C21_CompactionResult == [][C21_Step]_vars

C21_Witness ==
    /\ \A t \in Tasks : pc[t] = "idle"
    /\ stale_gen > 0 /\ stale_gen = cur_gen - 1
    /\ Cardinality(DOMAIN database) = 2
    /\ uncompacted = 0
    /\ writer = [gen |-> cur_gen, pos |-> SumLen(database, DOMAIN database)]
    /\ Contiguous(database, cur_gen)

\* C22: the watermark of an open store never decreases (open creates it at
\* 0), a compaction leaves it at the compaction generation minus one, and in
\* every state, the middle of a compaction included, every index locator has
\* a generation above the watermark
OpenStep == reply'.op = "open" /\ nopen' = nopen + 1

C22_Step ==
    /\ IF OpenStep THEN stale_gen' = 0 ELSE stale_gen' >= stale_gen
    /\ \A t \in Tasks :
          /\ (pc[t] = "compact_publish" /\ pc'[t] = "compact_remove") =>
                 stale_gen' = cur_gen - 1
          /\ CompactionDone(t) => stale_gen' = cur_gen' - 1
    /\ \A k \in DOMAIN database' : database'[k].gen > stale_gen'

C22_Watermark ==
    /\ [][C22_Step]_vars
    /\ [](\A k \in DOMAIN database : database[k].gen > stale_gen)

C22_Witness ==
    /\ \E t \in Tasks : pc[t] = "compact_remove"
    /\ stale_gen >= 2
    /\ database # EmptyMap
    /\ \A k \in DOMAIN database : database[k].gen = stale_gen + 1

\* C23: between calls, every index entry names an existing segment, lies
\* within the bytes of that segment, overlaps no other entry, and its bytes
\* decode to the Set record of its key with the key's latest value; get
\* never fails with UnexpectedCommandType
RECURSIVE FileLen(_)
FileLen(recs) == IF recs = <<>> THEN 0 ELSE SerializedLen(Head(recs)) + FileLen(Tail(recs))

EntryInFile(fs, cmd) == cmd.gen \in DOMAIN fs /\ cmd.pos + cmd.len <= FileLen(fs[cmd.gen])

Disjoint(c, d) == c.gen # d.gen \/ c.pos + c.len <= d.pos \/ d.pos + d.len <= c.pos

IndexSound(s) ==
    /\ \A k \in DOMAIN s.database : EntryInFile(s.files, s.database[k])
    /\ \A k, j \in DOMAIN s.database : k # j => Disjoint(s.database[k], s.database[j])
    /\ \A k \in DOMAIN s.database :
          LET rec == DecodeAt(s.files[s.database[k].gen], 1, 0,
                              s.database[k].pos, s.database[k].len)
          IN  IsOps(rec) /\ rec.type = "Set" /\ rec.key = k

\* every entry's record carries the value the reference map holds for its key
IndexLatest(s) ==
    \A k \in DOMAIN s.database :
        DecodeAt(s.files[s.database[k].gen], 1, 0, s.database[k].pos, s.database[k].len)
            = OpsSet(k, model[k])

\* the store between calls: as it stands, and as an open of its directory
\* would leave it
C23_IndexEntriesLive ==
    /\ IndexSound(Cur) /\ IndexLatest(Cur)
    /\ IndexSound(KvOpen(files)) /\ IndexLatest(KvOpen(files))
    /\ reply.res # ErrUnexpectedCommandType

\* C24: the first open, on an empty directory, writes generation 1; an open
\* sets the writable generation to one more than the largest it finds, a
\* compaction raises it by one, and nothing else changes it; a segment only
\* grows by appending, and only the segment of the current generation grows
\* or is created
IsPrefix(a, b) == Len(a) <= Len(b) /\ SubSeq(b, 1, Len(a)) = a

C24_Step ==
    /\ cur_gen' >= cur_gen
    /\ IF OpenStep
       THEN /\ \A g \in DOMAIN files : g < cur_gen'
            /\ cur_gen' - 1 \in DOMAIN files
            /\ cur_gen' > cur_gen
       ELSE IF \E t \in Tasks : CopyDone(t) THEN cur_gen' = cur_gen + 1
       ELSE cur_gen' = cur_gen
    /\ \A g \in DOMAIN files' :
          IF g \in DOMAIN files
          THEN /\ IsPrefix(files[g], files'[g])
               /\ files'[g] # files[g] => g = cur_gen'
          ELSE g = cur_gen'

NewLocator(k) == k \notin DOMAIN database \/ database'[k] # database[k]

C25_Step ==
    /\ OpenStep => \A k \in DOMAIN database' : database'[k].gen < cur_gen'
    /\ \A k \in DOMAIN database' :
          (NewLocator(k) /\ database'[k].gen = cur_gen' /\ ~OpenStep) =>
              \E t \in Tasks :
                  \/ CopyDone(t)
                  \/ /\ pc[t] = "set_insert" /\ arg[t].key = k
                     /\ database'[k] = cmdv[t]
                     /\ DecodeAt(files[cur_gen], 1, 0, cmdv[t].pos, cmdv[t].len)
                            = OpsSet(k, arg[t].val)

C26_Step ==
    \A k \in DOMAIN database' :
        NewLocator(k) =>
            IF \E t \in Tasks : CopyDone(t)
            THEN EntryInFile(files', database'[k])
            ELSE EntryInFile(files, database'[k])

RECURSIVE LogOf(_, _)
LogOf(fs, gens) ==
    IF gens = {} THEN <<>>
    ELSE fs[SetMin(gens)] \o LogOf(fs, gens \ {SetMin(gens)})

TombstoneLast(fs, key) ==
    LET log == LogOf(fs, DOMAIN fs)
    IN  \A i \in 1..Len(log) :
            (log[i].type = "Set" /\ log[i].key = key) =>
                \E j \in (i + 1)..Len(log) : log[j].type = "Rm" /\ log[j].key = key

RemoveReturns(t) ==
    /\ arg[t].op = "remove"
    /\ pc[t] \in {"rm_write", "compact_remove"}
    /\ pc'[t] = "idle"

IndexThenRecord ==
    \A t \in Tasks :
        /\ (pc[t] = "rm_index" /\ pc'[t] = "rm_write") =>
              /\ arg[t].key \in DOMAIN database
              /\ arg[t].key \notin DOMAIN database'
              /\ files' = files
        /\ \A u \in Tasks :
              (/\ pc[t] = "rm_write" /\ pc[u] = "get_lookup" /\ pc'[u] # "get_lookup"
               /\ arg[u].key = arg[t].key) =>
                  (pc'[u] = "get_send" /\ result'[u] = OkNone)

C27_Step ==
    /\ IndexThenRecord
    /\ \A t \in Tasks :
          RemoveReturns(t) =>
              /\ TombstoneLast(files', arg[t].key)
              /\ arg[t].key \notin DOMAIN KvOpen(files').database

C27_RemoveOrder == [][C27_Step]_vars

\* C28: a set or a successful remove runs a compaction exactly when the
\* counter, after the call added the length of the locator it displaced, is
\* above the threshold; when the call has returned the counter is at most
\* the threshold
MutationStep == nmut' = nmut + 1

Displaced(key) == IF key \in DOMAIN database THEN database[key].len ELSE 0

C28_Step ==
    MutationStep =>
        LET u == uncompacted + Displaced(reply'.key)
        IN  /\ reply'.op \in {"set", "remove"} /\ reply'.res = OkUnit
            /\ (cur_gen' = cur_gen + 1) <=> (u > COMPACTION_THRESHOLD)
            /\ u > COMPACTION_THRESHOLD => uncompacted' = 0
            /\ u <= COMPACTION_THRESHOLD => (uncompacted' = u /\ cur_gen' = cur_gen)
            /\ uncompacted' <= COMPACTION_THRESHOLD

C28_CompactionTrigger == [][C28_Step]_vars

C28_Witness ==
    /\ reply.op = "set"
    /\ uncompacted = COMPACTION_THRESHOLD
    /\ cur_gen = 1

\* C29: between calls the counter equals the bytes of the segment files
\* that no index entry references
RECURSIVE DiskBytes(_, _)
DiskBytes(fs, gens) ==
    IF gens = {} THEN 0
    ELSE FileLen(fs[SetMin(gens)]) + DiskBytes(fs, gens \ {SetMin(gens)})

UnreferencedBytes == DiskBytes(files, DOMAIN files) - SumLen(database, DOMAIN database)

C29_CounterIsStaleBytes == uncompacted = UnreferencedBytes

\* C30: recovery counts, for every Remove record, the length of the locator
\* it displaces and the record's own length, and takes the key out of the
\* index; with the displaced Set records this makes the counter after an
\* open the bytes of all records the recovered index does not reference
RECURSIVE RmBytes(_)
RmBytes(recs) ==
    IF recs = <<>> THEN 0
    ELSE (IF Head(recs).type = "Rm" THEN SerializedLen(Head(recs)) ELSE 0)
             + RmBytes(Tail(recs))

LastIsRm(fs, key) ==
    LET log == LogOf(fs, DOMAIN fs)
        of == {i \in 1..Len(log) : log[i].key = key}
    IN  of # {} /\ log[SetMax(of)].type = "Rm"

\* what the replay counts without the Remove records' own lengths
DisplacedBytes(fs, db) ==
    DiskBytes(fs, DOMAIN fs) - RmBytes(LogOf(fs, DOMAIN fs)) - SumLen(db, DOMAIN db)

C30_Step ==
    OpenStep =>
        /\ \A k \in Keys : LastIsRm(files, k) => k \notin DOMAIN database'
        /\ uncompacted' = DisplacedBytes(files, database') + RmBytes(LogOf(files, DOMAIN files))

C30_RecoveryCountsTombstones == [][C30_Step]_vars

\* C31: an open leaves in the index, for every key, the locator of the last
\* Set record of the key in the log (segments by ascending generation,
\* records by ascending offset), and no entry when a Remove record of the
\* key follows it or the key has no record; opening the directory the open
\* left behind gives the same index
RecordsOf(fs, key) ==
    {p \in {<<g, i>> : g \in DOMAIN fs, i \in 1..3 * MaxMutations} :
        p[2] <= Len(fs[p[1]]) /\ fs[p[1]][p[2]].key = key}

\* the record of the key that the log order puts last
LastRecord(fs, key) ==
    CHOOSE p \in RecordsOf(fs, key) :
        \A q \in RecordsOf(fs, key) : q[1] < p[1] \/ (q[1] = p[1] /\ q[2] <= p[2])

LocatorOf(fs, p) ==
    CommandPos(p[1], FileLen(SubSeq(fs[p[1]], 1, p[2] - 1)), SerializedLen(fs[p[1]][p[2]]))

LastSetIndex(fs) ==
    LET live == {k \in Keys : /\ RecordsOf(fs, k) # {}
                              /\ fs[LastRecord(fs, k)[1]][LastRecord(fs, k)[2]].type = "Set"}
    IN  [k \in live |-> LocatorOf(fs, LastRecord(fs, k))]

C31_RecoveryLastWins ==
    /\ \A g \in DOMAIN files : Len(files[g]) <= 3 * MaxMutations
    /\ KvOpen(files).database = LastSetIndex(files)
    /\ KvOpen(KvOpen(files).files).database = KvOpen(files).database

C31_Witness ==
    /\ reply.op = "open" /\ nopen = 2
    /\ \E k \in Keys :
          /\ k \notin DOMAIN database
          /\ \E p, q \in RecordsOf(files, k) :
                /\ p[1] < q[1]
                /\ files[p[1]][p[2]].type = "Set" /\ files[q[1]][q[2]].type = "Rm"
    /\ \E k \in DOMAIN database :
          \E p, q \in RecordsOf(files, k) : p # q /\ database[k] = LocatorOf(files, q)

\* C32: an open of a directory in which a segment ends with part of a
\* record, every other record whole, succeeds, and its index is that of the
\* whole records
Whole(fs) == [g \in DOMAIN fs |-> SelectSeq(fs[g], LAMBDA r : r.type # "Torn")]

TornTail(fs) ==
    /\ \E g \in DOMAIN fs : fs[g] # <<>> /\ fs[g][Len(fs[g])].type = "Torn"
    /\ \A g \in DOMAIN fs : \A i \in 1..(Len(fs[g]) - 1) : fs[g][i].type # "Torn"

C32_Step ==
    (OpenStep /\ TornTail(files')) =>
        /\ reply'.res = OkUnit
        /\ database' = LastSetIndex(Whole(files'))

C32_TruncatedTailTolerated == [][C32_Step]_vars

\* C36: a set whose write fails returns the error, leaves the index and the
\* counter as they were, and leaves what get returns for every key as it was
WriteFailed ==
    /\ reply'.op = "set" /\ reply'.res = ErrIo
    /\ nmut' = nmut + 1
    /\ Whole(files') = Whole(files)

C36_Step ==
    WriteFailed =>
        /\ database' = database
        /\ uncompacted' = uncompacted
        /\ cur_gen' = cur_gen
        /\ \A k \in Keys : KvGet(Cur', k) = KvGet(Cur, k)

C36_FailedSetLeavesIndex == [][C36_Step]_vars

C36_Witness ==
    /\ reply.op = "set" /\ reply.res = ErrIo
    /\ files[writer.gen] # <<>>
    /\ files[writer.gen][Len(files[writer.gen])] = OpsTorn(OpsSet(reply.key, reply.val), 1)
    /\ \E v \in Vals : v # reply.val /\ KvGet(Cur, reply.key) = OkSome(v)
    /\ uncompacted = 0

\* C35: in the session of a compaction that failed with an I/O error, the
\* writer appends to the segment of the current generation, every index
\* locator resolves to the Set record of its key's latest value, and get
\* returns for every key the value of the last mutation applied to it
Consistent(s) ==
    /\ s.writer.gen = s.cur_gen
    /\ IndexSound(s)
    /\ IndexLatest(s)
    /\ \A k \in Keys : KvGet(s, k) = Expected(model[k])

C35_FailedCompactionConsistent == (Live /\ nopen = 1) => Consistent(Cur)

\* C33: a get that found a locator goes from the lookup to the cleaning of
\* its reader's cache without touching a handle, reaches the read only
\* through the cleaning, which leaves no handle of a generation at or below
\* the watermark, and the read is never served by a cached handle whose
\* generation the watermark has reached
C33_Step ==
    \A t \in Tasks :
        /\ (pc[t] = "get_lookup" /\ pc'[t] # "get_lookup" /\ Found(cmdv'[t])) =>
              (pc'[t] = "get_clean" /\ readers' = readers)
        /\ (pc[t] # "get_read" /\ pc'[t] = "get_read") =>
              /\ pc[t] = "get_clean"
              /\ readers'[half[t]] = clean_stale_handle(readers[half[t]], stale_gen)
              /\ \A g \in DOMAIN readers'[half[t]] : g > stale_gen
        /\ (pc[t] = "get_read" /\ pc'[t] # "get_read") =>
              (cmdv[t].gen \in DOMAIN readers[half[t]] => cmdv[t].gen > stale_gen)

GetStep(t) == pc'[t] # pc[t] /\ (pc[t] \in GetPcs \/ pc'[t] \in GetPcs)

C34_Step ==
    /\ \A t \in Tasks :
          GetStep(t) =>
              /\ files' = files /\ database' = database
              /\ cur_gen' = cur_gen /\ stale_gen' = stale_gen
              /\ uncompacted' = uncompacted /\ writer' = writer
              /\ \A h \in Halves : h # t => readers'[h] = readers[h]
    /\ (files' # files \/ database' # database \/ cur_gen' # cur_gen
            \/ stale_gen' # stale_gen \/ uncompacted' # uncompacted \/ writer' # writer) =>
          \/ OpenStep
          \/ wlock \in Tasks /\ pc[wlock] \in CritPcs

C34_GetFrame == [][C34_Step]_vars

C34_Witness ==
    \E t \in Tasks :
        /\ pc[t] = "get_send" /\ result[t].kind = "Some"
        /\ readers[t] # EmptyCache
        /\ stale_gen > 0
        /\ wlock \in Tasks /\ pc[wlock] = "compact_remove"

\* C39: the listing returns, in ascending order, the generations of
\* exactly the files of the root named <digits>.log, each the integer its
\* digits denote, ignoring every other entry; and every generation returned
\* comes from a file whose name is log_path of it
IsDigitsLog(name) ==
    /\ Len(name) > Len(DotLog)
    /\ HasSuffix(name, DotLog)
    /\ \A i \in 1..(Len(name) - Len(DotLog)) : IsDigit(name[i])

Segments(entries) == {e \in entries : e.kind = "file" /\ IsDigitsLog(e.name)}

C39_GenerationListing ==
    listed =>
        /\ \A i \in 1..(Len(gen_list) - 1) : gen_list[i] <= gen_list[i + 1]
        /\ Len(gen_list) = Cardinality(Segments(dir))
        /\ \A e \in Segments(dir) :
              \E i \in 1..Len(gen_list) :
                  gen_list[i] = DecimalValue(SubSeq(e.name, 1, Len(e.name) - Len(DotLog)))
        /\ \A i \in 1..Len(gen_list) :
              \E e \in Segments(dir) : log_path(gen_list[i]) = e.name

\* C37: every call of the facade submits one task and completes with what
\* that task sent, or with the channel error when the task ended without
\* sending; the writer mutex and the index mutex change hands only in a step
\* of a pool task, never in a step of the caller, and are only ever held by
\* a task on a worker; in the end every call whose task unwound has completed
\* with the channel error
CallerStep(c) == call'[c] # call[c]

C37_Step ==
    /\ \A c \in Calls :
          CallerStep(c) => /\ wmutex' = wmutex /\ dmutex' = dmutex /\ poison' = poison
                           /\ database' = database /\ files' = files
                           /\ ftask'[c] \in {ftask[c], "queued"}
    /\ (wmutex' # wmutex \/ dmutex' # dmutex) =>
          \E c \in Calls : OnWorker(ftask[c]) /\ ftask'[c] # ftask[c]
    /\ \A c \in Calls : fres'[c] # fres[c] => ftask'[c] = "sent" /\ OnWorker(ftask[c])

C37_FacadeOneTask ==
    /\ [][C37_Step]_vars
    /\ [](\A c \in Calls : nspawn[c] = (IF call[c].st = "none" THEN 0 ELSE 1))
    /\ [](\A c \in Calls :
             call[c].st = "done" =>
                 \/ ftask[c] = "sent" /\ call[c].res = fres[c]
                 \/ ftask[c] = "dropped" /\ call[c].res = ErrTokioSync)
    /\ [](/\ wmutex # 0 => OnWorker(ftask[wmutex])
          /\ dmutex # 0 => OnWorker(ftask[dmutex]))
    /\ <>[](\A c \in Calls :
               ftask[c] = "dropped" => (call[c].st = "done" /\ call[c].res = ErrTokioSync))

C37_Witness ==
    /\ \E c \in Calls : call[c].st = "done" /\ call[c].res = ErrTokioSync
                        /\ call[c].op.op = "set"
    /\ \E c \in Calls : call[c].st = "done" /\ call[c].res.kind = "Some"
    /\ "writer" \in poison

\* C38: no interleaving of get, set, remove and compaction deadlocks: a task
\* waits for the writer mutex holding nothing, a mutation holds the index
\* mutex only inside the writer mutex, a get holds the index mutex only for
\* the copy of one locator, in every state some task on a worker can take a
\* step, and in the end no call is left awaiting
Blocked(c) ==
    \/ ftask[c] \in WLockPcs /\ wmutex # 0
    \/ ftask[c] \in DLockPcs /\ dmutex # 0

C38_LockOrder ==
    /\ \A c \in Calls : ftask[c] \in WLockPcs => (dmutex # c /\ wmutex # c)
    /\ \A c \in Calls : ftask[c] \in DLockPcs => dmutex # c
    /\ \A c \in Calls :
          dmutex = c => /\ ftask[c] \in DHeldPcs
                        /\ (call[c].op.op = "get") = (wmutex # c)
    /\ \A c \in Calls :
          wmutex = c => call[c].op.op \in {"set", "remove"} /\ OnWorker(ftask[c])
    /\ (\E c \in Calls : OnWorker(ftask[c])) =>
          \E c \in Calls : OnWorker(ftask[c]) /\ ~Blocked(c)

C38_ReaderStep ==
    \A c \in Calls :
        (dmutex = c /\ call[c].op.op = "get" /\ ftask'[c] # ftask[c]) =>
            /\ dmutex' # c
            /\ UNCHANGED storeVars
            /\ ftask'[c] \in {"get_read", "sent"}

C38_NoDeadlock ==
    /\ []C38_LockOrder
    /\ [][C38_ReaderStep]_vars
    /\ <>[](\A c \in Calls : call[c].st # "await")

C38_Witness ==
    \E b, c, d \in Calls :
        /\ call[b].st = "done"
        /\ ftask[c] = "get_dlock"
        /\ ftask[d] = "cmp_copy" /\ dmutex = d /\ wmutex = d

====
